---- MODULE Spec2Model ----
(***************************************************************************)
(* Model of the Orthanc browser client's metadata store client             *)
(* (src/api/orthanc.ts): the custom-tags JSON document stored at metadata  *)
(* key 4096 of a series, its existence cache, and the read / merge / write *)
(* operations on it (Spec); the parsing rule applied to stored texts and   *)
(* to the two encodings the writer produces (ParseSpec); and the row       *)
(* aggregator normalizeSeriesItem with loadSeriesForTable (LoaderSpec);    *)
(* the coercion of a find answer by findSeries (FindSpec); and the filter  *)
(* engine visibleRows of the page, src/App.tsx (FilterSpec).  Further      *)
(* specifications: the third version of the client, whose delete calls     *)
(* putSeriesCustomTags (VariantSpec); the read started from each value of  *)
(* the cache entry (ReadSpec); a put followed by a get (RoundTripSpec);    *)
(* the row set of the page and its refreshes (PageSpec); the loader under  *)
(* weak fairness (LoaderFairSpec).                                         *)
(*                                                                         *)
(* Texts are sequences of one-character strings.  JSON values are records  *)
(* tagged by t: "str" (s: text), "num" (n: digits), "obj" (m: map from     *)
(* key text to value) and "arr" (e: sequence of values).  Property order   *)
(* of an object is not modelled: objects are maps and are serialised in a  *)
(* fixed key order.                                                        *)
(***************************************************************************)
EXTENDS Integers, Sequences, FiniteSets, TLC

(***************************************************************************)
(* JSON.parse / JSON.stringify                                             *)
(***************************************************************************)

QUOTE == "\""

BACKSLASH == "\\"

Digits == {"0", "1", "2", "3"}

CharList == <<"0", "1", "2", "3", "a", "b", "c", "{", "}", "[", "]", ":", ",",
              QUOTE, BACKSLASH, " ", "<BS>">>

CharCode(c) == CHOOSE i \in 1..Len(CharList) : CharList[i] = c

RECURSIVE StrCode(_)
StrCode(s) ==
  IF s = <<>> THEN 0 ELSE CharCode(Head(s)) + (Len(CharList) + 1) * StrCode(Tail(s))

JStr(s) == [t |-> "str", s |-> s]

JNum(n) == [t |-> "num", n |-> n]

JObj(m) == [t |-> "obj", m |-> m]

JArr(e) == [t |-> "arr", e |-> e]

EmptyMap == [k \in {} |-> JStr(<<>>)]

EmptyObj == JObj(EmptyMap)

ParseFail == [ok |-> FALSE]

ParseOk(v, i) == [ok |-> TRUE, v |-> v, i |-> i]

RECURSIVE SkipWs(_, _)
SkipWs(t, i) ==
  IF i <= Len(t) /\ t[i] = " " THEN SkipWs(t, i + 1) ELSE i

\* the body of a string literal, i pointing after the opening quote
RECURSIVE ParseString(_, _, _)
ParseString(t, i, acc) ==
  IF i > Len(t) THEN ParseFail
  ELSE IF t[i] = QUOTE THEN ParseOk(acc, i + 1)
  ELSE IF t[i] = BACKSLASH THEN
    IF i + 1 > Len(t) THEN ParseFail
    ELSE IF t[i + 1] \in {QUOTE, BACKSLASH}
      THEN ParseString(t, i + 2, Append(acc, t[i + 1]))
    ELSE IF t[i + 1] = "b" THEN ParseString(t, i + 2, Append(acc, "<BS>"))
    ELSE ParseFail
  ELSE IF t[i] = "<BS>" THEN ParseFail
  ELSE ParseString(t, i + 1, Append(acc, t[i]))

RECURSIVE ParseNumber(_, _, _)
ParseNumber(t, i, acc) ==
  IF i <= Len(t) /\ t[i] \in Digits THEN ParseNumber(t, i + 1, Append(acc, t[i]))
  ELSE IF Len(acc) > 1 /\ acc[1] = "0" THEN ParseFail
  ELSE ParseOk(JNum(acc), i)

RECURSIVE ParseValue(_, _)
RECURSIVE ParseMembers(_, _, _)
RECURSIVE ParseElements(_, _, _)

\* the members of an object, i pointing at the first character of a key
ParseMembers(t, i, m) ==
  LET j == SkipWs(t, i) IN
  IF j > Len(t) \/ t[j] # QUOTE THEN ParseFail
  ELSE LET k == ParseString(t, j + 1, <<>>) IN
    IF ~k.ok THEN ParseFail
    ELSE LET c == SkipWs(t, k.i) IN
      IF c > Len(t) \/ t[c] # ":" THEN ParseFail
      ELSE LET v == ParseValue(t, SkipWs(t, c + 1)) IN
        IF ~v.ok THEN ParseFail
        ELSE LET m2 == [x \in DOMAIN m \cup {k.v} |-> IF x = k.v THEN v.v ELSE m[x]]
                 e == SkipWs(t, v.i) IN
          IF e > Len(t) THEN ParseFail
          ELSE IF t[e] = "}" THEN ParseOk(JObj(m2), e + 1)
          ELSE IF t[e] = "," THEN ParseMembers(t, e + 1, m2)
          ELSE ParseFail

\* the elements of an array, i pointing at the first character of an element
ParseElements(t, i, acc) ==
  LET v == ParseValue(t, SkipWs(t, i)) IN
  IF ~v.ok THEN ParseFail
  ELSE LET e == SkipWs(t, v.i) IN
    IF e > Len(t) THEN ParseFail
    ELSE IF t[e] = "]" THEN ParseOk(JArr(Append(acc, v.v)), e + 1)
    ELSE IF t[e] = "," THEN ParseElements(t, e + 1, Append(acc, v.v))
    ELSE ParseFail

ParseValue(t, i) ==
  IF i > Len(t) THEN ParseFail
  ELSE IF t[i] = "{" THEN
    LET j == SkipWs(t, i + 1) IN
    IF j <= Len(t) /\ t[j] = "}" THEN ParseOk(EmptyObj, j + 1)
    ELSE ParseMembers(t, j, EmptyMap)
  ELSE IF t[i] = "[" THEN
    LET j == SkipWs(t, i + 1) IN
    IF j <= Len(t) /\ t[j] = "]" THEN ParseOk(JArr(<<>>), j + 1)
    ELSE ParseElements(t, j, <<>>)
  ELSE IF t[i] = QUOTE THEN
    LET s == ParseString(t, i + 1, <<>>) IN
    IF s.ok THEN ParseOk(JStr(s.v), s.i) ELSE ParseFail
  ELSE IF t[i] \in Digits THEN ParseNumber(t, i, <<>>)
  ELSE ParseFail

\* JSON.parse: ok = FALSE stands for the SyntaxError it throws
JSONparse(t) ==
  LET r == ParseValue(t, SkipWs(t, 1)) IN
  IF r.ok /\ SkipWs(t, r.i) = Len(t) + 1 THEN r ELSE ParseFail

RECURSIVE Escape(_)
Escape(s) ==
  IF s = <<>> THEN <<>>
  ELSE (IF Head(s) \in {QUOTE, BACKSLASH} THEN <<BACKSLASH, Head(s)>>
        ELSE IF Head(s) = "<BS>" THEN <<BACKSLASH, "b">>
        ELSE <<Head(s)>>) \o Escape(Tail(s))

Quoted(s) == <<QUOTE>> \o Escape(s) \o <<QUOTE>>

MinKey(D) == CHOOSE k \in D : \A x \in D : StrCode(k) <= StrCode(x)

RECURSIVE JSONstringify(_)
RECURSIVE StringifyMembers(_, _)
RECURSIVE StringifyElements(_)

StringifyMembers(m, D) ==
  IF D = {} THEN <<>>
  ELSE LET k == MinKey(D) IN
    Quoted(k) \o <<":">> \o JSONstringify(m[k])
      \o (IF D = {k} THEN <<>> ELSE <<",">> \o StringifyMembers(m, D \ {k}))

StringifyElements(e) ==
  IF e = <<>> THEN <<>>
  ELSE JSONstringify(Head(e))
      \o (IF Len(e) = 1 THEN <<>> ELSE <<",">> \o StringifyElements(Tail(e)))

JSONstringify(v) ==
  IF v.t = "str" THEN Quoted(v.s)
  ELSE IF v.t = "num" THEN v.n
  ELSE IF v.t = "obj" THEN <<"{">> \o StringifyMembers(v.m, DOMAIN v.m) \o <<"}">>
  ELSE <<"[">> \o StringifyElements(v.e) \o <<"]">>

RECURSIVE TrimLeft(_)
TrimLeft(t) == IF t # <<>> /\ Head(t) = " " THEN TrimLeft(Tail(t)) ELSE t

RECURSIVE TrimRight(_)
TrimRight(t) ==
  IF t # <<>> /\ t[Len(t)] = " " THEN TrimRight(SubSeq(t, 1, Len(t) - 1)) ELSE t

\* String.prototype.trim
Trim(t) == TrimRight(TrimLeft(t))

\* typeof x === "object" for a non-null x: objects and arrays alike
IsObjectType(v) == v.t \in {"obj", "arr"}

\* variant of parseRaw that parses the text once only
parseRawOnce(rawText) ==
  LET first == JSONparse(rawText) IN
  IF first.ok /\ first.v.t = "obj" THEN first.v ELSE EmptyObj

\* the parseRaw helper of getSeriesCustomTagsWithEtag
parseRaw(rawText) ==
  LET first == JSONparse(rawText) IN
  IF ~first.ok THEN EmptyObj
  ELSE IF first.v.t = "str" THEN
    LET second == JSONparse(first.v.s) IN
    IF ~second.ok THEN EmptyObj
    ELSE IF IsObjectType(second.v) THEN second.v ELSE EmptyObj
  ELSE IF IsObjectType(first.v) THEN first.v ELSE EmptyObj

IdxKey(i) == <<CharList[i]>>

\* the own enumerable properties an object spread ({...x}) copies
Spread(v) ==
  IF v.t = "obj" THEN v.m
  ELSE [k \in {IdxKey(i) : i \in 1..Len(v.e)} |-> v.e[CharCode(k[1])]]

\* variant of MergeTags in which the stored value wins a key collision
MergeTagsCurrentWins(current, tags) ==
  LET c == Spread(current) IN
  JObj([k \in DOMAIN c \cup DOMAIN tags |-> IF k \in DOMAIN c THEN c[k] ELSE tags[k]])

\* { ...current, ...tags }
MergeTags(current, tags) ==
  LET c == Spread(current) IN
  JObj([k \in DOMAIN c \cup DOMAIN tags |-> IF k \in DOMAIN tags THEN tags[k] ELSE c[k]])

\* variant of DeleteKey that leaves the object as it was read
DeleteKeyKeepsAll(current, tagName) == current

\* delete current[tagName]
DeleteKey(current, tagName) ==
  IF current.t = "obj"
    THEN JObj([k \in DOMAIN current.m \ {tagName} |-> current.m[k]])
    ELSE current

(***************************************************************************)
(* Bounds and inputs                                                       *)
(***************************************************************************)

\* calls of the client API made in one behaviour
MaxCalls == 2

\* writes and deletions of the key made by other clients of the archive
MaxExternal == 1

\* the two async tasks that call the client API; a task makes its next call
\* when its previous one has settled, so up to two calls overlap
Ops == {1, 2}

Series == {"s1"}

A == <<"a">>

B == <<"b">>

C == <<"c">>

Doc1(k, v) == JObj([x \in {k} |-> JStr(<<v>>)])

\* the two-property document {k1: v1, k2: v2}
Doc2(k1, v1, k2, v2) ==
  JObj([x \in {k1, k2} |-> IF x = k1 THEN JStr(<<v1>>) ELSE JStr(<<v2>>)])

\* patches passed to putSeriesCustomTags: one that changes the stored key a
\* and adds the key b
PutPatches == {Doc2(A, "3", B, "2").m}

\* (tagName, value) passed to setSeriesCustomTag
SetArgs == {<<C, "1">>}

\* tagName passed to deleteSeriesCustomTag
DeleteArgs == {A}

\* raw text found at key 4096 when the client starts: a plain document
InitialTexts == {JSONstringify(Doc1(A, "1"))}

\* raw text another client of the archive stores at key 4096: an array padded
\* with white space
ExternalTexts == {<<" ">> \o JSONstringify(JArr(<<JStr(<<"c">>)>>))}

NoEtag == -1

Absent == [present |-> FALSE, text |-> <<>>]

Present(text) == [present |-> TRUE, text |-> text]

(***************************************************************************)
(* State                                                                   *)
(***************************************************************************)

VARIABLES
  stored,          \* archive: series -> value of metadata key 4096 (or absent)
  rev,             \* archive: series -> revision of the key (its ETag)
  HAS_4096_CACHE,  \* client: series -> "true" | "false" | "undefined"
  task,            \* client: op -> the locals of the call it is running
  calls,           \* number of API calls made so far
  externals,       \* number of writes made by other clients so far
  hist,            \* history of the call an op is running
  parse,           \* one application of the parsing rule: document, text, result
  found,           \* loader: the matches findSeries returned
  resources,       \* archive: the series / study / patient resources
  agg,             \* loader: match index -> the locals of its normalizeSeriesItem
  load,            \* loader: the position and the result of loadSeriesForTable
  app              \* page: the row set, the query, the tag filters, the visible rows

storeVars == <<stored, rev, HAS_4096_CACHE, task, calls, externals, hist>>

loaderVars == <<found, resources, agg, load>>

vars == <<storeVars, parse, loaderVars, app>>

IdleTask ==
  [ pc |-> "idle", kind |-> "none", seriesId |-> "s1", tags |-> EmptyMap,
    tagName |-> <<>>, cached |-> "undefined", current |-> EmptyObj,
    etag |-> NoEtag, merged |-> EmptyObj, status |-> 0, err |-> "none" ]

\* reqs: the requests issued so far; listed: the index answer of the read,
\* not yet followed by the direct GET, listed the key; readOk: the direct GET was answered 200;
\* readFailed: it was answered neither 200 nor 404; intervened: the stored
\* value changed after the read; concurrent: another call was in flight
\* during this one; putAccepted: a PUT was answered 200
IdleHist ==
  [ reqs |-> <<>>, listed |-> FALSE, readOk |-> FALSE, readFailed |-> FALSE, intervened |-> FALSE,
    concurrent |-> FALSE, putAccepted |-> FALSE ]

\* no API call is running
NoCalls ==
  /\ task = [o \in Ops |-> IdleTask]
  /\ calls = 0
  /\ externals = 0
  /\ hist = [o \in Ops |-> IdleHist]

\* the parsing rule is not being applied
NoParse == parse = [phase |-> "none"]

\* the page is not shown
NoApp == app = [phase |-> "none"]

\* loadSeriesForTable is not running
NoLoad ==
  /\ found = <<>>
  /\ resources = <<>>
  /\ agg = <<>>
  /\ load = [pc |-> "none"]

Init ==
  /\ stored \in [Series -> {Absent} \cup {Present(t) : t \in InitialTexts}]
  /\ rev = [s \in Series |-> 0]
  /\ HAS_4096_CACHE = [s \in Series |-> "undefined"]
  /\ NoCalls
  /\ NoParse
  /\ NoLoad
  /\ NoApp

GetPcs == {"getCached", "getIndexed", "probe"}

WriteKinds == {"put", "set", "delete"}

InFlight(o) == task[o].pc \notin {"idle", "done", "failed"}

\* a call has returned or thrown: of its locals only the result remains
Returned(t) ==
  [t EXCEPT !.cached = "undefined", !.merged = EmptyObj,
            !.current = IF t.kind = "get" /\ t.pc = "done" THEN @ ELSE EmptyObj,
            !.etag = IF t.kind = "get" /\ t.pc = "done" THEN @ ELSE NoEtag]

\* the history kept of a call that has returned or thrown
Settled(h) ==
  [IdleHist EXCEPT !.concurrent = h.concurrent, !.putAccepted = h.putAccepted,
                   !.readFailed = h.readFailed]

\* op o moves to task record t with history h; when the stored value of
\* series s changes in this step (written = TRUE) the ops that have read it
\* and not yet written are marked
Step(o, t, h, s, written) ==
  /\ task' = [task EXCEPT ![o] = IF t.pc \in {"done", "failed"} THEN Returned(t) ELSE t]
  /\ hist' = [p \in Ops |->
       IF p = o THEN (IF t.pc \in {"done", "failed"} THEN Settled(h) ELSE h)
       ELSE IF written /\ task[p].seriesId = s /\ task[p].pc \in {"putA", "putB"}
         THEN [hist[p] EXCEPT !.intervened = TRUE]
       ELSE hist[p]]

(***************************************************************************)
(* getSeriesCustomTagsWithEtag                                             *)
(***************************************************************************)

\* variant of FirstRequest that asks the metadata index whatever the cache says
FirstRequestIndexFirst(cached) == "index"

\* variant of FirstRequest in which a cached false skips the index as well
FirstRequestSkipsIndex(cached) ==
  IF cached = "true" THEN "getCached" ELSE IF cached = "false" THEN "probe" ELSE "index"

\* where the read goes first: straight to the key when the cache says true,
\* to the metadata index otherwise
FirstRequest(cached) == IF cached = "true" THEN "getCached" ELSE "index"

\* the synchronous start of an API call: the cache lookup of the read;
\* the tasks are numbered in the order of their first calls
Call(o, kind, s, tags, tagName) ==
  /\ ~InFlight(o)
  /\ \A p \in Ops : p < o => task[p].pc # "idle"
  /\ calls < MaxCalls
  /\ calls' = calls + 1
  /\ task' = [task EXCEPT ![o] =
       [IdleTask EXCEPT !.pc = FirstRequest(HAS_4096_CACHE[s]), !.kind = kind,
                        !.seriesId = s, !.tags = tags, !.tagName = tagName,
                        !.cached = HAS_4096_CACHE[s]]]
  /\ hist' = [p \in Ops |->
       IF p = o THEN [IdleHist EXCEPT !.concurrent = \E q \in Ops \ {o} : InFlight(q)]
       ELSE IF InFlight(p) THEN [hist[p] EXCEPT !.concurrent = TRUE]
       ELSE hist[p]]
  /\ UNCHANGED <<stored, rev, HAS_4096_CACHE, externals, parse, loaderVars, app>>

CallGet(o) ==
  \E s \in Series : Call(o, "get", s, EmptyMap, <<>>)

CallPut(o) ==
  \E s \in Series, tags \in PutPatches : Call(o, "put", s, tags, <<>>)

CallSet(o) ==
  \E s \in Series, a \in SetArgs : Call(o, "set", s, Doc1(a[1], a[2]).m, a[1])

CallDelete(o) ==
  \E s \in Series, k \in DeleteArgs : Call(o, "delete", s, EmptyMap, k)

\* has4096 of an index answer; "listed" can only be answered while the key exists
IndexOutcomes(s) == (IF stored[s].present THEN {"listed"} ELSE {}) \cup {"silent", "error"}

\* variant of CacheAfterIndex that trusts any answered index request
CacheAfterIndexAnyOk(old, outcome) == IF outcome # "error" THEN "true" ELSE old

\* the cache entry after the index request
CacheAfterIndex(old, outcome) == IF outcome = "listed" THEN "true" ELSE old

\* GET /series/{id}/metadata, and the re-read of the cache after it
Index(o) ==
  /\ task[o].pc = "index"
  /\ LET s == task[o].seriesId IN
     \E outcome \in IndexOutcomes(s) :
       LET updatedCache == CacheAfterIndex(HAS_4096_CACHE[s], outcome) IN
       /\ HAS_4096_CACHE' = [HAS_4096_CACHE EXCEPT ![s] = updatedCache]
       /\ Step(o, [task[o] EXCEPT
                     !.pc = IF updatedCache = "true" THEN "getIndexed" ELSE "probe"],
               [hist[o] EXCEPT !.reqs = Append(@, "INDEX"),
                               !.listed = (outcome = "listed")], s, FALSE)
  /\ UNCHANGED <<stored, rev, calls, externals, parse, loaderVars, app>>

\* answers the archive can give to GET /series/{id}/metadata/4096;
\* 0 stands for a request that fails at the network level (fetch rejects)
GetStatuses(s) == (IF stored[s].present THEN {200} ELSE {404}) \cup {500, 0}

\* the ETag header of a 200 answer: the archive keeps revisions
EtagHeader(s) == rev[s]

\* variant of CacheAfterGet that flips the entry to false on every failure
CacheAfterGetFlipsOnError(old, pc, status) ==
  IF status = 200 THEN (IF pc = "probe" THEN "true" ELSE old) ELSE "false"

\* the cache entry after the direct GET, by the branch that issued it
CacheAfterGet(old, pc, status) ==
  IF status = 200 THEN (IF pc = "probe" THEN "true" ELSE old)
  ELSE IF status = 404 THEN "false"
  ELSE old

\* { tags, etag } returned by the read
ReadResult(status, text, etagHeader) ==
  IF status = 200 THEN [tags |-> parseRaw(Trim(text)), etag |-> etagHeader]
  ELSE [tags |-> EmptyObj, etag |-> NoEtag]

\* variant of ReadReturns in which the probe branch gives no token
ReadReturnsProbeBare(pc, status, text, etagHeader) ==
  LET r == ReadResult(status, text, etagHeader) IN
  IF pc = "probe" THEN [r EXCEPT !.etag = NoEtag] ELSE r

\* the return statements of the branch that issued the direct GET: the
\* cached branch, the branch after the index listed the key, the probe
ReadReturns(pc, status, text, etagHeader) ==
  IF pc = "getCached" THEN ReadResult(status, text, etagHeader)
  ELSE IF pc = "getIndexed" THEN ReadResult(status, text, etagHeader)
  ELSE ReadResult(status, text, etagHeader)

\* the object the write operations hand to writeMetadata4096DualMode
BodyObject(kind, current, tags, tagName) ==
  IF kind = "delete" THEN DeleteKey(current, tagName) ELSE MergeTags(current, tags)

\* what a fetch that fails at the network level makes the call throw
FetchRejects(t) == [t EXCEPT !.pc = "failed", !.status = 0, !.err = "TypeError: Failed to fetch"]

\* GET /series/{id}/metadata/4096 and the code up to the next request
Get(o) ==
  /\ task[o].pc \in GetPcs
  /\ LET s == task[o].seriesId
         t == task[o]
         h0 == [hist[o] EXCEPT !.reqs = Append(@, "GET"), !.listed = FALSE] IN
     \E status \in GetStatuses(s) :
       LET h == [h0 EXCEPT !.readFailed = status \notin {200, 404}] IN
       IF status = 0
       THEN /\ Step(o, FetchRejects(t), h, s, FALSE)
            /\ UNCHANGED HAS_4096_CACHE
       ELSE LET r == ReadReturns(t.pc, status, stored[s].text, EtagHeader(s)) IN
            /\ HAS_4096_CACHE' = [HAS_4096_CACHE EXCEPT
                 ![s] = CacheAfterGet(@, t.pc, status)]
            /\ Step(o, [t EXCEPT
                 !.pc = IF t.kind = "get" THEN "done" ELSE "putA",
                 !.status = status, !.current = r.tags, !.etag = r.etag,
                 !.merged = IF t.kind = "get" THEN EmptyObj
                            ELSE BodyObject(t.kind, r.tags, t.tags, t.tagName)],
                 [h EXCEPT !.readOk = (status = 200)], s, FALSE)
  /\ UNCHANGED <<stored, rev, calls, externals, parse, loaderVars, app>>

(***************************************************************************)
(* writeMetadata4096DualMode and the write operations                      *)
(***************************************************************************)

\* variant of IfMatch that never sends the header
IfMatchNever(etag) == NoEtag

\* ...(etag ? { "If-Match": etag } : {}): the value of the If-Match header
\* of a PUT, NoEtag standing for a request without the header
IfMatch(etag) == IF etag # NoEtag THEN etag ELSE NoEtag

\* the If-Match precondition fails
PreconditionFails(s, etag) == etag # NoEtag /\ etag # rev[s]

\* answers the archive can give to a PUT carrying If-Match etag (if any)
PutStatuses(s, etag) ==
  (IF PreconditionFails(s, etag) THEN {412} ELSE {200}) \cup {400, 0}

\* variant of TryAttemptB that sends the double-encoded form after any answer
TryAttemptBAlways(okA) == TRUE

\* if (!attemptA.ok): attempt B is made when attempt A was answered not ok
TryAttemptB(okA) == ~okA

\* what the caller of a write operation sees for a final response that is
\* not ok: writeMetadata4096DualMode has already read the response text, so
\* the second res.text() rejects before new Error(msg) is built
ThrownFor(bodyUsed) ==
  IF bodyUsed THEN "TypeError: body stream already read" ELSE "Error: msg"

\* the cache entry after a write operation got an ok response
CacheAfterWrite(old, kind) == IF kind \in {"put", "set"} THEN "true" ELSE old

\* variant of WritePc that never looks at res.ok
WritePcIgnoresOk(ok) == "done"

\* the outcome of a write operation, from the response
\* writeMetadata4096DualMode returns
WritePc(ok) == IF ok THEN "done" ELSE "failed"

\* the write operation after writeMetadata4096DualMode returned its response
AfterWrite(o, status, body, h) ==
  LET s == task[o].seriesId
      ok == status = 200
      resolves == WritePc(ok) = "done" IN
  /\ stored' = [stored EXCEPT ![s] = IF ok THEN Present(body) ELSE @]
  /\ rev' = [rev EXCEPT ![s] = IF ok THEN @ + 1 ELSE @]
  /\ HAS_4096_CACHE' = [HAS_4096_CACHE EXCEPT
       ![s] = IF resolves THEN CacheAfterWrite(@, task[o].kind) ELSE @]
  /\ Step(o, [task[o] EXCEPT !.pc = WritePc(ok), !.status = status,
                !.err = IF resolves THEN "none" ELSE ThrownFor(TRUE)],
          h, s, ok)

\* body of attempt A: JSON.stringify(bodyObject)
PlainBody(bodyObject) == JSONstringify(bodyObject)

\* variant of DoubleEncoded that stringifies once more
DoubleEncodedThrice(bodyObject) ==
  JSONstringify(JStr(JSONstringify(JStr(JSONstringify(bodyObject)))))

\* body of attempt B: JSON.stringify(JSON.stringify(bodyObject))
DoubleEncoded(bodyObject) == JSONstringify(JStr(JSONstringify(bodyObject)))

\* attempt A: the plain JSON text
PutA(o) ==
  /\ task[o].pc = "putA"
  /\ LET s == task[o].seriesId
         body == PlainBody(task[o].merged) IN
     \E status \in PutStatuses(s, IfMatch(task[o].etag)) :
       LET h == [hist[o] EXCEPT !.reqs = Append(@, "PUT-A"),
                                !.putAccepted = @ \/ status = 200] IN
       IF status # 0 /\ ~TryAttemptB(status = 200) THEN AfterWrite(o, status, body, h)
       ELSE /\ Step(o, IF status = 0 THEN FetchRejects(task[o])
                       ELSE [task[o] EXCEPT !.pc = "putB", !.status = status],
                    h, s, FALSE)
            /\ UNCHANGED <<stored, rev, HAS_4096_CACHE>>
  /\ UNCHANGED <<calls, externals, parse, loaderVars, app>>

\* attempt B: the legacy double-encoded JSON
PutB(o) ==
  /\ task[o].pc = "putB"
  /\ LET s == task[o].seriesId
         doubleEncoded == DoubleEncoded(task[o].merged) IN
     \E status \in PutStatuses(s, IfMatch(task[o].etag)) :
       LET h == [hist[o] EXCEPT !.reqs = Append(@, "PUT-B"),
                                !.putAccepted = @ \/ status = 200] IN
       IF status = 0
       THEN /\ Step(o, FetchRejects(task[o]), h, s, FALSE)
            /\ UNCHANGED <<stored, rev, HAS_4096_CACHE>>
       ELSE AfterWrite(o, status, doubleEncoded, h)
  /\ UNCHANGED <<calls, externals, parse, loaderVars, app>>

(***************************************************************************)
(* Other clients of the archive                                            *)
(***************************************************************************)

External(s, value) ==
  /\ externals < MaxExternal
  /\ externals' = externals + 1
  /\ stored' = [stored EXCEPT ![s] = value]
  /\ rev' = [rev EXCEPT ![s] = @ + 1]
  /\ hist' = [p \in Ops |->
       IF task[p].seriesId = s /\ task[p].pc \in {"putA", "putB"}
         THEN [hist[p] EXCEPT !.intervened = TRUE]
       ELSE hist[p]]
  /\ UNCHANGED <<HAS_4096_CACHE, task, calls, parse, loaderVars, app>>

ExternalPut ==
  \E s \in Series, text \in ExternalTexts : External(s, Present(text))

ExternalDelete ==
  \E s \in Series : stored[s].present /\ External(s, Absent)

Next ==
  \/ \E o \in Ops : CallGet(o)
  \/ \E o \in Ops : CallPut(o)
  \/ \E o \in Ops : CallSet(o)
  \/ \E o \in Ops : CallDelete(o)
  \/ \E o \in Ops : Index(o)
  \/ \E o \in Ops : Get(o)
  \/ \E o \in Ops : PutA(o)
  \/ \E o \in Ops : PutB(o)
  \/ ExternalPut
  \/ ExternalDelete

Spec == Init /\ [][Next]_vars

(***************************************************************************)
(* The parsing rule and the two encodings, applied to one input            *)
(***************************************************************************)

\* length of the longest raw text enumerated character by character
MaxLen == 3

\* number of keys of the largest document serialised
MaxKeys == 2

RawChars == {"[", "]", "{", "}", QUOTE, "1", " "}

\* the texts of at most n characters of RawChars
RECURSIVE TextsUpTo(_)
TextsUpTo(n) ==
  IF n = 0 THEN {<<>>}
  ELSE LET T == TextsUpTo(n - 1) IN
       T \cup {Append(t, c) : t \in {x \in T : Len(x) = n - 1}, c \in RawChars}

\* a JSON value of each shape: objects, arrays, a number, strings
StoredShapes ==
  {EmptyObj, Doc1(A, "1"), JArr(<<>>), JArr(<<JStr(<<"c">>)>>), JNum(<<"1">>),
   JStr(<<"a">>), JStr(<<"1">>), JStr(<<"{">>)}

\* raw texts found at the key: short texts of any form, and the plain and
\* double-encoded serialisations of a value of each shape
RawTexts ==
  TextsUpTo(MaxLen) \cup {PlainBody(v) : v \in StoredShapes}
                   \cup {DoubleEncoded(v) : v \in StoredShapes}

DocKeys == {A, B, <<QUOTE>>}

DocValues == {<<>>, <<"1">>, <<BACKSLASH>>, <<QUOTE, "a">>, <<"{", "}">>, <<"<BS>">>}

\* the documents: maps of at most MaxKeys string keys to string values
Documents ==
  {JObj(m) : m \in UNION {[D -> {JStr(v) : v \in DocValues}] :
                           D \in {K \in SUBSET DocKeys : Cardinality(K) <= MaxKeys}}}

\* the store client is not in use, the key of every series absent
StoreIdle ==
  /\ stored = [s \in Series |-> Absent]
  /\ rev = [s \in Series |-> 0]
  /\ HAS_4096_CACHE = [s \in Series |-> "undefined"]
  /\ NoCalls

ParseInit ==
  /\ parse \in
       {[phase |-> "document", doc |-> d, form |-> "none", rawText |-> <<>>,
         result |-> EmptyObj] : d \in Documents}
       \cup {[phase |-> "stored", doc |-> EmptyObj, form |-> "foreign", rawText |-> t,
              result |-> EmptyObj] : t \in RawTexts}
  /\ StoreIdle
  /\ NoLoad
  /\ NoApp

\* the document is stored as attempt A sends it
SerializePlain ==
  /\ parse.phase = "document"
  /\ parse' = [parse EXCEPT !.phase = "stored", !.form = "plain",
                            !.rawText = PlainBody(parse.doc)]
  /\ UNCHANGED <<storeVars, loaderVars, app>>

\* the document is stored as attempt B sends it
SerializeDouble ==
  /\ parse.phase = "document"
  /\ parse' = [parse EXCEPT !.phase = "stored", !.form = "double",
                            !.rawText = DoubleEncoded(parse.doc)]
  /\ UNCHANGED <<storeVars, loaderVars, app>>

\* the read of an ok answer: parseRaw((await res.text()).trim())
ParseStored ==
  /\ parse.phase = "stored"
  /\ parse' = [parse EXCEPT !.phase = "parsed", !.result = parseRaw(Trim(parse.rawText))]
  /\ UNCHANGED <<storeVars, loaderVars, app>>

ParseNext ==
  \/ SerializePlain
  \/ SerializeDouble
  \/ ParseStored

ParseSpec == ParseInit /\ [][ParseNext]_vars

(***************************************************************************)
(* normalizeSeriesItem and loadSeriesForTable                              *)
(***************************************************************************)

\* matches of the largest find result whose items are aggregated concurrently
MaxMatches == 2

\* series identifiers of the archive, in the order find returns them
LoaderIds == <<"s1", "s2", "s3">>

TagKeys == {"PatientID", "PatientName", "StudyDate", "SeriesDate"}

NoTags == [k \in {} |-> ""]

\* the attribute maps one source can hold: at most one of keys, with an empty
\* value or with the value that names the source
TagMaps(keys, src) == {NoTags} \cup UNION {[{k} -> {"", src}] : k \in keys}

\* null: what fetchJson resolves to when the request did not give JSON
Null == [null |-> TRUE]

Undefined == "undefined"

\* a number of the JSON of a resource
NumberVal(n) == [t |-> "number", v |-> n]

\* a property the JSON of a resource does not have
UndefinedVal == [t |-> "undefined"]

\* count and instances are tagged by their typeof, like the values of the
\* find payload below
SeriesResource(tags, parent, count, instances) ==
  [MainDicomTags |-> tags, ParentStudy |-> parent, InstancesCount |-> count,
   Instances |-> instances]

StudyResource(tags, parent) == [MainDicomTags |-> tags, ParentPatient |-> parent]

PatientResource(tags) == [MainDicomTags |-> tags]

\* values of the JSON payload of POST /tools/find, tagged by their typeof
\* (null apart): v is the string, f the properties of the object, e the
\* elements of the array
StrVal(v) == [t |-> "string", v |-> v]

NullVal == [t |-> "null"]

NumVal == [t |-> "number"]

ObjVal(f) == [t |-> "object", f |-> f]

ArrVal(e) == [t |-> "array", e |-> e]

\* a body that is not JSON: res.json() rejects
NotJson == [t |-> "invalid"]

NoFields == [k \in {} |-> NullVal]

\* the item the archive returns for a match when asked for RequestedTags
MatchItem(id, hint) == ObjVal("ID" :> StrVal(id) @@ "RequestedTags" :> ObjVal(hint))

\* one match with a hint, its series, study and patient holding attribute
\* maps that collide and leave gaps
OneMatchWorlds ==
  {[resources |->
      [find |-> ArrVal(<<MatchItem("s1", h)>>),
       series |-> "s1" :> SeriesResource(se, "study1", NumberVal(2), ArrVal(<<>>)),
       studies |-> "study1" :> StudyResource(st, "patient1"),
       patients |-> "patient1" :> PatientResource(p)]] :
   h \in TagMaps(TagKeys, "h"),
   se \in TagMaps({"PatientID", "StudyDate", "SeriesDate"}, "se"),
   st \in TagMaps({"PatientID", "StudyDate"}, "st"),
   p \in TagMaps({"PatientID", "PatientName"}, "p")}

\* the series resource of the i-th identifier: the three ways a resource
\* gives, or does not give, its number of instances
SeriesOf(i) ==
  SeriesResource("SeriesDate" :> LoaderIds[i], "study1",
                 IF i = 1 THEN NumberVal(2) ELSE UndefinedVal,
                 IF i = 2 THEN ArrVal(<<"i1">>) ELSE ArrVal(<<>>))

\* n matches without hints, their series under one study of one patient
ManyMatchesWorld(n) ==
  [resources |->
     [find |-> ArrVal([i \in 1..n |-> MatchItem(LoaderIds[i], NoTags)]),
      series |-> [id \in {LoaderIds[i] : i \in 1..n} |->
                    SeriesOf(CHOOSE i \in 1..n : LoaderIds[i] = id)],
      studies |-> "study1" :> StudyResource("StudyDate" :> "st", "patient1"),
      patients |-> "patient1" :> PatientResource("PatientID" :> "p")]]

\* items of a find payload from which no identifier can be taken
Unresolvable ==
  {StrVal(""), NumVal, NullVal, ArrVal(<<>>), ObjVal(NoFields),
   ObjVal("ID" :> StrVal("")), ObjVal("ID" :> NullVal),
   ObjVal("RequestedTags" :> ObjVal("PatientID" :> "h"))}

\* the archive holds two series and the find answer names none of them: a
\* list of one unresolvable item, a payload that is not a list, or a body
\* that is not JSON
NothingFoundWorlds ==
  {[resources |-> [ManyMatchesWorld(2).resources EXCEPT !.find = payload]] :
     payload \in {ArrVal(<<u>>) : u \in Unresolvable}
                   \cup {ObjVal(NoFields), NullVal, StrVal("s1"), NotJson}}

\* a find answer that mixes the shapes: a bare identifier, an item without
\* identifier, an object that names its identifier Id and its hint
\* requestedTags
MixedWorld ==
  [resources |->
     [ManyMatchesWorld(2).resources EXCEPT
        !.find = ArrVal(<<StrVal("s1"), NullVal,
                          ObjVal("Id" :> StrVal("s2") @@
                                 "requestedTags" :> ObjVal("PatientID" :> "h"))>>)]]

\* one match whose series names no parent study, or whose study names no
\* parent patient
OrphanWorlds ==
  {[resources |->
      [find |-> ArrVal(<<MatchItem("s1", NoTags)>>),
       series |-> "s1" :> SeriesResource("SeriesDate" :> "se", parentStudy, NumberVal(2),
                                        ArrVal(<<>>)),
       studies |-> "study1" :> StudyResource("StudyDate" :> "st", parentPatient),
       patients |-> "patient1" :> PatientResource("PatientID" :> "p")]] :
   parentStudy \in {Undefined, "", "study1"}, parentPatient \in {Undefined, ""}}

\* one match whose series gives its number of instances in every way: as a
\* number (0 included), as a text, as null, not at all; with a list of
\* instances, with something that is not a list, without
SliceWorlds ==
  {[resources |->
      [find |-> ArrVal(<<MatchItem("s1", NoTags)>>),
       series |-> "s1" :> SeriesResource(NoTags, Undefined, count, instances),
       studies |-> "study1" :> StudyResource(NoTags, Undefined),
       patients |-> "patient1" :> PatientResource(NoTags)]] :
   count \in {NumberVal(0), NumberVal(2), StrVal("2"), NullVal, UndefinedVal},
   instances \in {ArrVal(<<>>), ArrVal(<<"i1">>), ArrVal(<<"i1", "i2", "i3">>),
                  StrVal("i1"), ObjVal(NoFields), UndefinedVal}}

Worlds ==
  OneMatchWorlds \cup {ManyMatchesWorld(n) : n \in {0} \cup 2..MaxMatches}
    \cup NothingFoundWorlds \cup {MixedWorld} \cup OrphanWorlds \cup SliceWorlds

\* a page that calls loadSeriesForTable: the key 4096 of the first series
\* holds a document, the existence cache is empty
LoaderInit ==
  /\ \E w \in Worlds : resources = w.resources
  /\ found = <<>>
  /\ agg = <<>>
  /\ load = [pc |-> "finding", cause |-> "none", rows |-> <<>>, sent |-> {}]
  /\ stored = [id \in {LoaderIds[i] : i \in DOMAIN LoaderIds} |->
                 IF id = LoaderIds[1] THEN Present(JSONstringify(Doc1(A, "1"))) ELSE Absent]
  /\ rev = [id \in {LoaderIds[i] : i \in DOMAIN LoaderIds} |-> 0]
  /\ HAS_4096_CACHE = [id \in {LoaderIds[i] : i \in DOMAIN LoaderIds} |-> "undefined"]
  /\ NoCalls
  /\ NoParse
  /\ NoApp

\* variant of FetchMethod in which the requests without init are writes
FetchMethodPut == "PUT"

\* fetch(url): a request without init is a GET
FetchMethod == "GET"

\* fetch(url, { method: "POST", ... }) of findSeries
FindMethod == "POST"

\* what fetchJson(path) can resolve to: the resource, when it exists and the
\* request succeeds, or null
FetchJsonResults(collection, id) ==
  (IF id \in DOMAIN collection THEN {collection[id]} ELSE {}) \cup {Null}

\* x?.MainDicomTags ?? {}
MainDicomTagsOf(x) == IF x = Null THEN NoTags ELSE x.MainDicomTags

\* series?.ParentStudy
ParentStudyOf(series) == IF series = Null THEN Undefined ELSE series.ParentStudy

\* study?.ParentPatient
ParentPatientOf(study) == IF study = Null THEN Undefined ELSE study.ParentPatient

\* variant of SlicesOf that counts the list before it reads the count
SlicesOfListFirst(series) ==
  IF series = Null THEN 0
  ELSE IF series.Instances.t = "array" THEN Len(series.Instances.e)
  ELSE IF series.InstancesCount.t = "number" THEN series.InstancesCount.v
  ELSE 0

\* typeof series?.InstancesCount === "number" ? series.InstancesCount
\*   : Array.isArray(series?.Instances) ? series.Instances.length : 0
SlicesOf(series) ==
  IF series = Null THEN 0
  ELSE IF series.InstancesCount.t = "number" THEN series.InstancesCount.v
  ELSE IF series.Instances.t = "array" THEN Len(series.Instances.e)
  ELSE 0

\* variant of NeedsFetch that fetches the parent whatever its identifier
NeedsFetchAlways(parentId) == TRUE

\* parentId ? await fetchJson(...) : null
NeedsFetch(parentId) == parentId \notin {Undefined, ""}

\* variant of MergeAttrs in which the least specific source wins
MergeAttrsFirstWins(patientTags, studyTags, seriesTags, hint) ==
  [k \in DOMAIN patientTags \cup DOMAIN studyTags \cup DOMAIN seriesTags \cup DOMAIN hint |->
     IF k \in DOMAIN patientTags THEN patientTags[k]
     ELSE IF k \in DOMAIN studyTags THEN studyTags[k]
     ELSE IF k \in DOMAIN seriesTags THEN seriesTags[k]
     ELSE hint[k]]

\* { ...patientTags, ...studyTags, ...seriesTags, ...(it.RequestedTags ?? {}) }
MergeAttrs(patientTags, studyTags, seriesTags, hint) ==
  [k \in DOMAIN patientTags \cup DOMAIN studyTags \cup DOMAIN seriesTags \cup DOMAIN hint |->
     IF k \in DOMAIN hint THEN hint[k]
     ELSE IF k \in DOMAIN seriesTags THEN seriesTags[k]
     ELSE IF k \in DOMAIN studyTags THEN studyTags[k]
     ELSE patientTags[k]]

\* tags[k] is truthy: present and not the empty string
Truthy(tags, k) == k \in DOMAIN tags /\ tags[k] # ""

\* variant of CopyIfEmpty that fills a key only when it is absent
CopyIfAbsent(tags, to, from) ==
  IF to \notin DOMAIN tags /\ Truthy(tags, from)
  THEN [k \in DOMAIN tags \cup {to} |-> IF k = to THEN tags[from] ELSE tags[k]]
  ELSE tags

\* if (!tags[to] && tags[from]) tags[to] = tags[from]
CopyIfEmpty(tags, to, from) ==
  IF ~Truthy(tags, to) /\ Truthy(tags, from)
  THEN [k \in DOMAIN tags \cup {to} |-> IF k = to THEN tags[from] ELSE tags[k]]
  ELSE tags

\* the two display fallbacks, in the order of the code
Fallbacks(tags) ==
  CopyIfEmpty(CopyIfEmpty(tags, "StudyDate", "SeriesDate"), "PatientName", "PatientID")

\* the locals of normalizeSeriesItem(it) at its first request
StartItem(it) ==
  [pc |-> IF it.ID = "" THEN "done" ELSE "series", id |-> it.ID,
   hint |-> it.RequestedTags, series |-> Null, study |-> Null, patient |-> Null,
   reqs |-> <<>>, sent |-> {}, slices |-> 0, requestedTags |-> it.RequestedTags,
   status |-> 0, customTags |-> EmptyObj]

\* the row normalizeSeriesItem returns
RowOf(a) ==
  [id |-> a.id, slices |-> a.slices, requestedTags |-> a.requestedTags,
   customTags |-> a.customTags]

\* from the answer of the patient request, or from the point where it is
\* skipped, to the first request of getSeriesCustomTags
AfterPatient(a, patient) ==
  [a EXCEPT !.patient = patient,
            !.requestedTags =
               Fallbacks(MergeAttrs(MainDicomTagsOf(patient), MainDicomTagsOf(a.study),
                                    MainDicomTagsOf(a.series), a.hint)),
            !.pc = FirstRequest(HAS_4096_CACHE[a.id])]

\* from the answer of the study request, or from the point where it is skipped
AfterStudy(a, study) ==
  LET b == [a EXCEPT !.study = study] IN
  IF NeedsFetch(ParentPatientOf(study)) THEN [b EXCEPT !.pc = "patient"]
  ELSE AfterPatient(b, Null)

\* variant of AfterSeries that asks for the study whatever the series answer
AfterSeriesStudyAnyway(a, series) ==
  [a EXCEPT !.series = series, !.slices = SlicesOf(series), !.pc = "study"]

\* from the answer of the series request
AfterSeries(a, series) ==
  LET b == [a EXCEPT !.series = series, !.slices = SlicesOf(series)] IN
  IF NeedsFetch(ParentStudyOf(series)) THEN [b EXCEPT !.pc = "study"]
  ELSE AfterStudy(b, Null)

\* the fields an identifier is taken from, in the order they are tried
IdFields == <<"ID", "Id", "SeriesID", "Series">>

\* x ?? ...: the property is undefined or null
Nullish(f, name) == name \notin DOMAIN f \/ f[name].t = "null"

\* variant of IdOf that reads the field ID only
IdOfIdOnly(f) == IF Nullish(f, "ID") THEN "" ELSE f["ID"].v

\* it.ID ?? it.Id ?? it.SeriesID ?? it.Series ?? it["ID"] ?? ""
IdOf(f) ==
  LET have == {i \in DOMAIN IdFields : ~Nullish(f, IdFields[i])} IN
  IF have = {} THEN ""
  ELSE f[IdFields[CHOOSE i \in have : \A j \in have : i <= j]].v

\* it.RequestedTags ?? it.requestedTags ?? {}
HintOf(f) ==
  IF ~Nullish(f, "RequestedTags") THEN f["RequestedTags"].f
  ELSE IF ~Nullish(f, "requestedTags") THEN f["requestedTags"].f
  ELSE NoTags

\* the callback of raw.map: an array is an object without the properties read
CoerceItem(it) ==
  IF it.t = "string" THEN [ID |-> it.v, RequestedTags |-> NoTags]
  ELSE IF it.t = "object" THEN [ID |-> IdOf(it.f), RequestedTags |-> HintOf(it.f)]
  ELSE IF it.t = "array" THEN [ID |-> IdOf(NoFields), RequestedTags |-> HintOf(NoFields)]
  ELSE [ID |-> "", RequestedTags |-> NoTags]

\* raw.map(...).filter((x) => !!x.ID), or [] when raw is not an array
CoerceItems(raw) ==
  IF raw.t # "array" THEN <<>>
  ELSE SelectSeq([i \in DOMAIN raw.e |-> CoerceItem(raw.e[i])], LAMBDA x : x.ID # "")

\* how POST /tools/find ends: a 2xx answer, another status, no answer
FindOutcomes == {"ok", "status", "network"}

\* findSeries: it throws when fetch rejects, when the answer is not ok and
\* when res.json() rejects
findSeries(outcome, body) ==
  IF outcome # "ok" \/ body = NotJson THEN [threw |-> TRUE, items |-> <<>>]
  ELSE [threw |-> FALSE, items |-> CoerceItems(body)]

\* variant of ShortCircuits that hands every find result to Promise.all
ShortCircuitsNever(items) == FALSE

\* if (!found.length) return []
ShortCircuits(items) == Len(items) = 0

\* POST /tools/find is answered; every match with an identifier is handed to
\* normalizeSeriesItem, which runs to its first request
FindSeries ==
  /\ load.pc = "finding"
  /\ \E outcome \in FindOutcomes :
       LET r == findSeries(outcome, resources.find) IN
       IF r.threw THEN
         /\ load' = [load EXCEPT !.pc = "rejected", !.cause = "find",
                                 !.sent = @ \cup {FindMethod}]
         /\ UNCHANGED <<found, agg>>
       ELSE IF ShortCircuits(r.items) THEN
         /\ found' = r.items
         /\ load' = [load EXCEPT !.pc = "done", !.sent = @ \cup {FindMethod}]
         /\ agg' = agg
       ELSE
         LET valid == SelectSeq(r.items, LAMBDA x : x.ID # "") IN
         /\ found' = r.items
         /\ load' = [load EXCEPT !.pc = "mapping", !.sent = @ \cup {FindMethod}]
         /\ agg' = [i \in 1..Len(valid) |-> StartItem(valid[i])]
  /\ UNCHANGED <<storeVars, parse, app, resources>>

\* the aggregation issues the request req with fetch(url)
Fetch(a, req) == [a EXCEPT !.reqs = Append(@, req), !.sent = @ \cup {FetchMethod}]

\* 1) GET /series/{id}
SeriesDetail(i) ==
  /\ load.pc = "mapping" /\ agg[i].pc = "series"
  /\ \E series \in FetchJsonResults(resources.series, agg[i].id) :
       agg' = [agg EXCEPT ![i] = AfterSeries(Fetch(@, "SERIES"), series)]
  /\ UNCHANGED <<storeVars, parse, app, found, resources, load>>

\* 2) GET /studies/{parentStudyId}
StudyDetail(i) ==
  /\ load.pc = "mapping" /\ agg[i].pc = "study"
  /\ \E study \in FetchJsonResults(resources.studies, ParentStudyOf(agg[i].series)) :
       agg' = [agg EXCEPT ![i] = AfterStudy(Fetch(@, "STUDY"), study)]
  /\ UNCHANGED <<storeVars, parse, app, found, resources, load>>

\* 3) GET /patients/{parentPatientId}
PatientDetail(i) ==
  /\ load.pc = "mapping" /\ agg[i].pc = "patient"
  /\ \E patient \in FetchJsonResults(resources.patients, ParentPatientOf(agg[i].study)) :
       agg' = [agg EXCEPT ![i] = AfterPatient(Fetch(@, "PATIENT"), patient)]
  /\ UNCHANGED <<storeVars, parse, app, found, resources, load>>

\* 4) getSeriesCustomTags: GET /series/{id}/metadata
CustomIndex(i) ==
  /\ load.pc = "mapping" /\ agg[i].pc = "index"
  /\ LET s == agg[i].id IN
     \E outcome \in IndexOutcomes(s) :
       LET updatedCache == CacheAfterIndex(HAS_4096_CACHE[s], outcome) IN
       /\ HAS_4096_CACHE' = [HAS_4096_CACHE EXCEPT ![s] = updatedCache]
       /\ agg' = [agg EXCEPT ![i] =
            [Fetch(@, "INDEX") EXCEPT
                      !.pc = IF updatedCache = "true" THEN "getIndexed" ELSE "probe"]]
  /\ UNCHANGED <<stored, rev, task, calls, externals, hist, parse, app, found, resources, load>>

\* variant of OnReadThrows without the try/catch around getSeriesCustomTags
OnReadThrowsUncaught(a) == [a EXCEPT !.pc = "rejected"]

\* catch (e) { customTags = {} }: the row is returned without custom tags
OnReadThrows(a) == [a EXCEPT !.pc = "done", !.customTags = EmptyObj]

\* 4) getSeriesCustomTags: GET /series/{id}/metadata/4096, and the return of
\* the row
CustomGet(i) ==
  /\ load.pc = "mapping" /\ agg[i].pc \in GetPcs
  /\ LET s == agg[i].id
         a == Fetch(agg[i], "GET") IN
     \E status \in GetStatuses(s) :
       IF status = 0
       THEN /\ agg' = [agg EXCEPT ![i] = OnReadThrows([a EXCEPT !.status = status])]
            /\ UNCHANGED HAS_4096_CACHE
       ELSE /\ HAS_4096_CACHE' = [HAS_4096_CACHE EXCEPT
                 ![s] = CacheAfterGet(@, agg[i].pc, status)]
            /\ agg' = [agg EXCEPT ![i] =
                 [a EXCEPT !.pc = "done", !.status = status,
                           !.customTags = ReadReturns(agg[i].pc, status, stored[s].text,
                                                      EtagHeader(s)).tags]]
  /\ UNCHANGED <<stored, rev, task, calls, externals, hist, parse, app, found, resources, load>>

\* Promise.all settles: it rejects when a normalizeSeriesItem rejected, and
\* resolves to the rows that have an id otherwise
Join ==
  /\ load.pc = "mapping"
  /\ \A i \in DOMAIN agg : agg[i].pc \in {"done", "rejected"}
  /\ load' = IF \E i \in DOMAIN agg : agg[i].pc = "rejected"
             THEN [load EXCEPT !.pc = "rejected", !.cause = "item"]
             ELSE [load EXCEPT !.pc = "done",
                     !.rows = SelectSeq([i \in DOMAIN agg |-> RowOf(agg[i])],
                                        LAMBDA r : r.id # "")]
  /\ UNCHANGED <<storeVars, parse, app, found, resources, agg>>

LoaderNext ==
  \/ FindSeries
  \/ \E i \in DOMAIN agg : SeriesDetail(i)
  \/ \E i \in DOMAIN agg : StudyDetail(i)
  \/ \E i \in DOMAIN agg : PatientDetail(i)
  \/ \E i \in DOMAIN agg : CustomIndex(i)
  \/ \E i \in DOMAIN agg : CustomGet(i)
  \/ Join

LoaderSpec == LoaderInit /\ [][LoaderNext]_vars

\* every request of the pass is answered or fails, and a promise whose inputs
\* have settled settles
LoaderFairSpec == LoaderSpec /\ WF_vars(LoaderNext)

(***************************************************************************)
(* findSeries, applied to one find answer                                  *)
(***************************************************************************)

\* items of the longest find payload
MaxItems == 2

HintA == "PatientID" :> "h"

HintB == "StudyDate" :> "r"

\* the shapes of an item: bare identifiers, objects that name the identifier
\* and the hint in the ways findSeries knows, and items without identifier
ItemShapes ==
  Unresolvable \cup
  {StrVal("s1"),
   ObjVal("ID" :> StrVal("s1")),
   ObjVal("Id" :> StrVal("s2")),
   ObjVal("SeriesID" :> StrVal("s1")),
   ObjVal("Series" :> StrVal("s2")),
   ObjVal("ID" :> NullVal @@ "Series" :> StrVal("s2")),
   ObjVal("ID" :> StrVal("") @@ "Id" :> StrVal("s2")),
   ObjVal("Id" :> StrVal("s1") @@ "SeriesID" :> StrVal("s2")),
   ObjVal("SeriesID" :> StrVal("s1") @@ "Series" :> StrVal("s2")),
   ObjVal("Series" :> StrVal("s1") @@ "requestedTags" :> ObjVal(HintA)),
   ObjVal("ID" :> StrVal("s1") @@ "RequestedTags" :> ObjVal(HintA) @@
          "requestedTags" :> ObjVal(HintB)),
   ObjVal("ID" :> StrVal("s2") @@ "RequestedTags" :> NullVal @@
          "requestedTags" :> ObjVal(HintB))}

\* the bodies of a find answer: lists of items, values that are not lists,
\* and a body that is not JSON
Payloads ==
  {ArrVal(e) : e \in UNION {[1..n -> ItemShapes] : n \in 0..MaxItems}}
    \cup {ObjVal(NoFields), NullVal, NumVal, StrVal("s1"), NotJson}

FindInit ==
  /\ \E payload \in Payloads : resources = [find |-> payload]
  /\ found = <<>>
  /\ agg = <<>>
  /\ load = [pc |-> "findSeries", cause |-> "none", rows |-> <<>>]
  /\ StoreIdle
  /\ NoParse
  /\ NoApp

\* findSeries({}) settles
FindSettles ==
  /\ load.pc = "findSeries"
  /\ \E outcome \in FindOutcomes :
       LET r == findSeries(outcome, resources.find) IN
       /\ found' = r.items
       /\ load' = [load EXCEPT !.pc = IF r.threw THEN "threw" ELSE "returned"]
  /\ UNCHANGED <<storeVars, parse, app, resources, agg>>

FindNext == FindSettles

FindSpec == FindInit /\ [][FindNext]_vars

(***************************************************************************)
(* visibleRows: the filter engine of the page                              *)
(***************************************************************************)

\* rows of the largest row set
MaxRows == 2

\* tag filters of the longest filter list drawn
MaxPairs == 2

UpperLetters ==
  <<"A", "B", "C", "D", "E", "F", "G", "H", "I", "J", "K", "L", "M",
    "N", "O", "P", "Q", "R", "S", "T", "U", "V", "W", "X", "Y", "Z">>

LowerLetters ==
  <<"a", "b", "c", "d", "e", "f", "g", "h", "i", "j", "k", "l", "m",
    "n", "o", "p", "q", "r", "s", "t", "u", "v", "w", "x", "y", "z">>

DecimalDigits == <<"0", "1", "2", "3", "4", "5", "6", "7", "8", "9">>

\* the characters of the texts, in the order of their UTF-16 code units
CodeOrder == <<" ", "-">> \o DecimalDigits \o UpperLetters \o LowerLetters

CodeUnit ==
  [c \in {CodeOrder[i] : i \in DOMAIN CodeOrder} |->
     CHOOSE i \in DOMAIN CodeOrder : CodeOrder[i] = c]

\* the lower-case form of every character
LowerChar ==
  [c \in {CodeOrder[i] : i \in DOMAIN CodeOrder} |->
     IF \E j \in DOMAIN UpperLetters : UpperLetters[j] = c
     THEN LowerLetters[CHOOSE j \in DOMAIN UpperLetters : UpperLetters[j] = c]
     ELSE c]

\* String.prototype.toLowerCase
toLowerCase(t) == [i \in DOMAIN t |-> LowerChar[t[i]]]

\* String.prototype.includes
includes(t, sub) ==
  \E i \in 0..(Len(t) - Len(sub)) : SubSeq(t, i + 1, i + Len(sub)) = sub

\* String.prototype.startsWith
startsWith(t, sub) == Len(sub) <= Len(t) /\ SubSeq(t, 1, Len(sub)) = sub

\* String.prototype.endsWith
endsWith(t, sub) ==
  Len(sub) <= Len(t) /\ SubSeq(t, Len(t) - Len(sub) + 1, Len(t)) = sub

\* a < b on strings: the first differing code unit decides, a proper prefix
\* is smaller
LessThan(a, b) ==
  \/ Len(a) < Len(b) /\ SubSeq(b, 1, Len(a)) = a
  \/ \E i \in 1..Len(a) :
       /\ i <= Len(b)
       /\ SubSeq(a, 1, i - 1) = SubSeq(b, 1, i - 1)
       /\ CodeUnit[a[i]] < CodeUnit[b[i]]

\* /^\d{8}$/.test(v)
IsDateToken(v) ==
  Len(v) = 8 /\ \A i \in DOMAIN v : v[i] \in {DecimalDigits[d] : d \in DOMAIN DecimalDigits}

RECURSIVE DecimalString(_)
\* String(n) of a natural number
DecimalString(n) ==
  IF n < 10 THEN <<DecimalDigits[n + 1]>>
  ELSE DecimalString(n \div 10) \o <<DecimalDigits[(n % 10) + 1]>>

\* value.toString() of a string or a number
toString(value) == IF value.t = "str" THEN value.s ELSE value.n

\* typeof x === "string"
IsString(value) == value.t = "str"

\* one tag filter; a field the page left undefined is the empty text
KVPair(scope, mode, key, value, from, to) ==
  [scope |-> scope, mode |-> mode, key |-> key, value |-> value, from |-> from, to |-> to]

\* the tag filter addKv appends
DefaultKv == KVPair("dicom", "contains", <<>>, <<>>, <<>>, <<>>)

\* !!(kv.from?.trim() || kv.to?.trim())
hasDateBounds(kv) == Trim(kv.from) # <<>> \/ Trim(kv.to) # <<>>

\* the callback of kvPairs.some in hasUsableKv
Usable(kv) ==
  LET lhs == Trim(kv.key)
      rhs == Trim(kv.value) IN
  IF kv.mode = "dateRange" THEN lhs # <<>> \/ hasDateBounds(kv)
  ELSE lhs # <<>> \/ rhs # <<>>

hasUsableKv(kvPairs) == \E i \in DOMAIN kvPairs : Usable(kvPairs[i])

\* variant of Skipped that evaluates every tag filter
SkippedNever(kv) == FALSE

\* isEmptyStringMode || isEmptyDateMode: the tag filter is passed over
Skipped(kv) ==
  LET lhs == toLowerCase(Trim(kv.key))
      rhs == toLowerCase(Trim(kv.value))
      isDateRange == kv.mode = "dateRange" IN
  \/ ~isDateRange /\ lhs = <<>> /\ rhs = <<>>
  \/ isDateRange /\ lhs = <<>> /\ ~hasDateBounds(kv)

\* kv.scope === "custom" ? custom : requested
Namespace(r, kv) == IF kv.scope = "custom" THEN r.customTags ELSE r.requestedTags

\* variant of matchingKeys that takes every key whatever the key filter
matchingKeysAll(src, lhs) == DOMAIN src

\* lhs ? keys.filter((k) => k.toLowerCase().includes(lhs)) : keys
matchingKeys(src, lhs) ==
  IF lhs # <<>> THEN {k \in DOMAIN src : includes(toLowerCase(k), lhs)} ELSE DOMAIN src

\* variant of DateOk without the test of the date format
DateOkAnyText(kv, value) ==
  LET from == Trim(kv.from)
      to == Trim(kv.to)
      v == Trim(toString(value)) IN
  /\ ~(from # <<>> /\ LessThan(v, from))
  /\ ~(to # <<>> /\ LessThan(to, v))

\* the callback of matchingKeys.some for a dateRange filter
DateOk(kv, value) ==
  LET from == Trim(kv.from)
      to == Trim(kv.to)
      v == Trim(toString(value)) IN
  /\ IsDateToken(v)
  /\ ~(from # <<>> /\ LessThan(v, from))
  /\ ~(to # <<>> /\ LessThan(to, v))

\* variant of EmptyValueOk that accepts an empty value of the row too
EmptyValueOkAlways(val) == TRUE

\* if (!rhs) return val.length > 0
EmptyValueOk(val) == Len(val) > 0

\* variant of ModeOk in which every mode is contains
ModeOkContains(mode, val, rhs) == includes(val, rhs)

\* switch (mode)
ModeOk(mode, val, rhs) ==
  IF mode = "equals" THEN val = rhs
  ELSE IF mode = "startsWith" THEN startsWith(val, rhs)
  ELSE IF mode = "endsWith" THEN endsWith(val, rhs)
  ELSE includes(val, rhs)

\* the callback of matchingKeys.some for the string modes
StringOk(kv, value) ==
  LET rhs == toLowerCase(Trim(kv.value))
      val == toLowerCase(toString(value)) IN
  IF rhs = <<>> THEN EmptyValueOk(val) ELSE ModeOk(kv.mode, val, rhs)

\* one turn of the loop over kvPairs for a filter that is not passed over:
\* FALSE is the return false of the row
KvOk(kv, r) ==
  LET src == Namespace(r, kv)
      lhs == toLowerCase(Trim(kv.key))
      mks == matchingKeys(src, lhs) IN
  /\ mks # {}
  /\ IF kv.mode = "dateRange" THEN \E mk \in mks : DateOk(kv, src[mk])
     ELSE \E mk \in mks : StringOk(kv, src[mk])

PatientNameKey == <<"P", "a", "t", "i", "e", "n", "t", "N", "a", "m", "e">>

SeriesDescriptionKey == <<"S", "e", "r", "i", "e", "s", "D", "e", "s", "c", "r", "i", "p", "t", "i", "o", "n">>

ModalityKey == <<"M", "o", "d", "a", "l", "i", "t", "y">>

BodyPartExaminedKey == <<"B", "o", "d", "y", "P", "a", "r", "t", "E", "x", "a", "m", "i", "n", "e", "d">>

SeriesDateKey == <<"S", "e", "r", "i", "e", "s", "D", "a", "t", "e">>

StudyInstanceUIDKey == <<"S", "t", "u", "d", "y", "I", "n", "s", "t", "a", "n", "c", "e", "U", "I", "D">>

SeriesInstanceUIDKey == <<"S", "e", "r", "i", "e", "s", "I", "n", "s", "t", "a", "n", "c", "e", "U", "I", "D">>

\* the attributes the free-text query looks at first
PrioritizedFields ==
  {PatientNameKey, SeriesDescriptionKey, ModalityKey, BodyPartExaminedKey,
   SeriesDateKey, StudyInstanceUIDKey, SeriesInstanceUIDKey}

StringValues(tags) == {tags[k].s : k \in {x \in DOMAIN tags : IsString(tags[x])}}

\* variant of Fields without the slice count
FieldsNoSlices(r) ==
  StringValues([k \in PrioritizedFields \cap DOMAIN r.requestedTags |-> r.requestedTags[k]])
    \cup StringValues(r.requestedTags) \cup StringValues(r.customTags)

\* fields: the strings the free-text query is looked for in
Fields(r) ==
  StringValues([k \in PrioritizedFields \cap DOMAIN r.requestedTags |-> r.requestedTags[k]])
    \cup {DecimalString(r.slices)}
    \cup StringValues(r.requestedTags) \cup StringValues(r.customTags)

\* fields.some((v) => v.toLowerCase().includes(q))
FreeTextOk(r, q) == \E v \in Fields(r) : includes(toLowerCase(v), q)

\* the callback of series.filter
RowVisible(r, q, kvPairs) ==
  /\ \A i \in DOMAIN kvPairs : Skipped(kvPairs[i]) \/ KvOk(kvPairs[i], r)
  /\ q = <<>> \/ FreeTextOk(r, q)

visibleRows(series, query, kvPairs) ==
  LET q == toLowerCase(Trim(query)) IN
  IF q = <<>> /\ ~hasUsableKv(kvPairs) THEN series
  ELSE SelectSeq(series, LAMBDA r : RowVisible(r, q, kvPairs))

\* the row loadSeriesForTable returns for a series
FilterRow(id, slices, requestedTags, customTags) ==
  [id |-> id, slices |-> slices, requestedTags |-> requestedTags, customTags |-> customTags]

ProjectKey == <<"P", "r", "o", "j", "e", "c", "t">>

SiteKey == <<"S", "i", "t", "e">>

StudyDateKey == <<"S", "t", "u", "d", "y", "D", "a", "t", "e">>

Fenix == <<"F", "e", "n", "i", "x">>

D20240101 == <<"2", "0", "2", "4", "0", "1", "0", "1">>

D20240115 == <<"2", "0", "2", "4", "0", "1", "1", "5">>

D20240131 == <<"2", "0", "2", "4", "0", "1", "3", "1">>

D20240201 == <<"2", "0", "2", "4", "0", "2", "0", "1">>

\* rows of the archive: the same key in both namespaces, keys that share a
\* part of their name, values that differ in case, empty values, a number,
\* dates in and out of form, a slice count no text of the row contains
AllRows ==
  <<FilterRow("s1", 2, SeriesDateKey :> JStr(D20240115) @@
                       ModalityKey :> JStr(<<"C", "T">>),
              ProjectKey :> JStr(Fenix)),
    FilterRow("s2", 12, SeriesDateKey :> JStr(D20240201),
              ProjectKey :> JStr(<<"O", "t", "h", "e", "r">>)),
    FilterRow("s3", 0, SeriesDateKey :> JStr(<<" ", "2", "0", "2", "4", "0", "1", "1", "5">>) @@
                       PatientNameKey :> JStr(<<>>),
              ProjectKey :> JStr(<<>>) @@
                       SiteKey :> JStr(<<"x", "F", "E", "N", "I", "X">>)),
    FilterRow("s4", 0, EmptyMap, EmptyMap),
    FilterRow("s5", 3, SeriesDateKey :> JStr(<<"2", "0", "2", "4", "0", "1", "1">>) @@
                       StudyDateKey :> JStr(D20240115),
              ProjectKey :> JNum(<<"7">>)),
    FilterRow("s6", 1, ProjectKey :> JStr(<<"f", "e", "n", "i", "x", " ", "2">>),
              SeriesDateKey :> JStr(D20240131) @@
                       StudyDateKey :> JStr(<<"2", "0", "2", "4", "-", "0", "1", "-", "1", "5">>))>>

\* the k-th smallest member of a set of numbers
Kth(S, k) == CHOOSE x \in S : Cardinality({y \in S : y <= x}) = k

\* the row sets the page can hold: rows of the archive in their order
RowSets ==
  {[k \in 1..Cardinality(S) |-> AllRows[Kth(S, k)]] :
     S \in {X \in SUBSET DOMAIN AllRows : Cardinality(X) <= MaxRows}}

StringModes == {"contains", "equals", "startsWith", "endsWith"}

Scopes == {"dicom", "custom"}

KeyFilters == {<<>>, <<"p", "r", "o", "j">>, <<"P", "R", "O", "J", "E", "C", "T">>, <<" ", "P", "r", "o", "j", "e", "c", "t", " ">>, <<"d", "a", "t", "e">>, <<"z", "z">>}

ValueFilters == {<<>>, <<"f", "e", "n", "i", "x">>, <<"F", "E", "N">>, <<"n", "i", "x">>, <<" ", "F", "e", "n", "i", "x", " ">>, <<"x">>}

StringFilters ==
  {KVPair(scope, mode, key, value, <<>>, <<>>) :
     scope \in Scopes, mode \in StringModes, key \in KeyFilters, value \in ValueFilters}

DateFilters ==
  {KVPair(scope, "dateRange", key, <<>>, from, to) :
     scope \in Scopes, key \in {<<>>, SeriesDateKey, <<"d", "a", "t", "e">>},
     from \in {<<>>, D20240101, <<" ", "2", "0", "2", "4", "0", "1", "1", "6", " ">>}, to \in {<<>>, D20240131}}

\* tag filters that are combined with each other and with a query: two that
\* select by one key, two that are empty in ways other than the filter addKv
\* appends, one that looks at every key
ListFilters ==
  {KVPair("custom", "equals", ProjectKey, Fenix, <<>>, <<>>),
   KVPair("dicom", "dateRange", SeriesDateKey, <<>>, D20240101, D20240131),
   KVPair("custom", "dateRange", <<>>, <<"x">>, <<>>, <<>>),
   KVPair("dicom", "contains", <<" ">>, <<" ">>, D20240101, <<>>),
   KVPair("dicom", "startsWith", <<>>, <<"c", "t">>, <<>>, <<>>)}

Queries == {<<>>, <<" ">>, <<"f", "e", "n">>, <<" ", "C", "T", " ">>, <<"3">>, <<"7">>}

\* what the user asks for: one tag filter of any kind and no query, or a
\* list of tag filters and a query
FilterChoices ==
  {[query |-> <<>>, kvPairs |-> <<kv>>] : kv \in StringFilters \cup DateFilters}
  \cup
  {[query |-> q, kvPairs |-> kvs] :
     q \in Queries, kvs \in UNION {[1..n -> ListFilters] : n \in 0..MaxPairs}}

\* the page after a refresh: a row set, no query, no tag filter
FilterInit ==
  /\ \E rs \in RowSets :
       app = [phase |-> "loaded", series |-> rs, query |-> <<>>, kvPairs |-> <<>>,
              visible |-> visibleRows(rs, <<>>, <<>>)]
  /\ StoreIdle
  /\ NoParse
  /\ NoLoad

\* the user types the query and sets the tag filters, and the page renders:
\* visibleRows is computed from series, query and adv
Filter(query, kvPairs) ==
  /\ app.phase = "loaded"
  /\ app' = [app EXCEPT !.phase = "shown", !.query = query, !.kvPairs = kvPairs,
                        !.visible = visibleRows(app.series, query, kvPairs)]
  /\ UNCHANGED <<storeVars, parse, loaderVars>>

\* Add Tag Filter, and the render that follows
addKv ==
  /\ app.phase = "shown"
  /\ Len(app.kvPairs) < MaxPairs
  /\ LET kvPairs == Append(app.kvPairs, DefaultKv) IN
     app' = [app EXCEPT !.kvPairs = kvPairs,
                        !.visible = visibleRows(app.series, app.query, kvPairs)]
  /\ UNCHANGED <<storeVars, parse, loaderVars>>

\* next.splice(idx, 1)
Splice(kvPairs, idx) ==
  [n \in 1..(Len(kvPairs) - 1) |-> IF n < idx THEN kvPairs[n] ELSE kvPairs[n + 1]]

\* Remove, and the render that follows
removeKv(idx) ==
  /\ app.phase = "shown"
  /\ idx \in DOMAIN app.kvPairs
  /\ LET kvPairs == Splice(app.kvPairs, idx) IN
     app' = [app EXCEPT !.kvPairs = kvPairs,
                        !.visible = visibleRows(app.series, app.query, kvPairs)]
  /\ UNCHANGED <<storeVars, parse, loaderVars>>

FilterNext ==
  \/ \E in \in FilterChoices : Filter(in.query, in.kvPairs)
  \/ addKv
  \/ \E idx \in 1..MaxPairs : removeKv(idx)

FilterSpec == FilterInit /\ [][FilterNext]_vars

(***************************************************************************)
(* The variant of the client whose set and delete call putSeriesCustomTags *)
(***************************************************************************)

\* raw texts found at key 4096 when deleteSeriesCustomTag is called: documents
\* of no, one and two keys in both encodings, an array, the empty text
VariantTexts ==
  LET docs == {EmptyObj, Doc1(A, "1"), Doc1(B, "1"), Doc2(A, "1", B, "2")} IN
  {PlainBody(d) : d \in docs} \cup {DoubleEncoded(d) : d \in docs}
    \cup {PlainBody(JArr(<<JStr(<<"c">>)>>)), <<>>}

\* tagName passed to deleteSeriesCustomTag
VariantKeys == {A, B, C}

\* getSeriesCustomTagsWithEtag of the variant: one direct GET, no cache, the
\* text parsed as it is
ReadDirect(status, text, etagHeader) ==
  IF status = 200 THEN [tags |-> parseRaw(text), etag |-> etagHeader]
  ELSE [tags |-> EmptyObj, etag |-> NoEtag]

\* const merged = { ...current, ...tags } of putSeriesCustomTags, tags being
\* the document the caller read and changed
PutMerged(current, tags) == MergeTags(current, Spread(tags))

\* one call deleteSeriesCustomTag(s1, k), no other client of the archive
VariantInit ==
  /\ stored \in [Series -> {Absent} \cup {Present(t) : t \in VariantTexts}]
  /\ rev = [s \in Series |-> 0]
  /\ HAS_4096_CACHE = [s \in Series |-> "undefined"]
  /\ \E k \in VariantKeys :
       task = [o \in Ops |->
                 IF o = 1 THEN [IdleTask EXCEPT !.pc = "read", !.kind = "delete",
                                                !.tagName = k]
                 ELSE IdleTask]
  /\ calls = 1
  /\ externals = 0
  /\ hist = [o \in Ops |-> IdleHist]
  /\ NoParse
  /\ NoLoad
  /\ NoApp

\* deleteSeriesCustomTag: the read and delete current[tagName]
VariantRead ==
  /\ task[1].pc = "read"
  /\ LET s == task[1].seriesId IN
     \E status \in GetStatuses(s) :
       task' = [task EXCEPT ![1] =
         IF status = 0 THEN FetchRejects(@)
         ELSE [@ EXCEPT !.pc = "putRead", !.status = status,
                 !.current = DeleteKey(ReadDirect(status, stored[s].text,
                                                  EtagHeader(s)).tags,
                                       task[1].tagName)]]
  /\ UNCHANGED <<stored, rev, HAS_4096_CACHE, calls, externals, hist, parse,
                 loaderVars, app>>

\* putSeriesCustomTags(seriesId, current): its own read and the merge
VariantPutRead ==
  /\ task[1].pc = "putRead"
  /\ LET s == task[1].seriesId IN
     \E status \in GetStatuses(s) :
       task' = [task EXCEPT ![1] =
         IF status = 0 THEN FetchRejects(@)
         ELSE LET r == ReadDirect(status, stored[s].text, EtagHeader(s)) IN
              [@ EXCEPT !.pc = "put", !.status = status, !.etag = r.etag,
                        !.merged = PutMerged(r.tags, task[1].current)]]
  /\ UNCHANGED <<stored, rev, HAS_4096_CACHE, calls, externals, hist, parse,
                 loaderVars, app>>

\* putSeriesCustomTags: the PUT of JSON.stringify(merged)
VariantPut ==
  /\ task[1].pc = "put"
  /\ LET s == task[1].seriesId IN
     \E status \in PutStatuses(s, IfMatch(task[1].etag)) :
       /\ stored' = [stored EXCEPT ![s] = IF status = 200
                                          THEN Present(PlainBody(task[1].merged)) ELSE @]
       /\ rev' = [rev EXCEPT ![s] = IF status = 200 THEN @ + 1 ELSE @]
       /\ task' = [task EXCEPT ![1] =
            IF status = 0 THEN FetchRejects(@)
            ELSE [@ EXCEPT !.pc = WritePc(status = 200), !.status = status,
                           !.err = IF status = 200 THEN "none" ELSE ThrownFor(FALSE)]]
  /\ UNCHANGED <<HAS_4096_CACHE, calls, externals, hist, parse, loaderVars, app>>

VariantNext ==
  \/ VariantRead
  \/ VariantPutRead
  \/ VariantPut

VariantSpec == VariantInit /\ [][VariantNext]_vars

(***************************************************************************)
(* getSeriesCustomTagsWithEtag started from each state of the cache entry  *)
(* and given the same answer to GET /series/{id}/metadata/4096             *)
(***************************************************************************)

\* HAS_4096_CACHE.get(seriesId) when the read starts
ReadStarts == {"true", "false", "undefined"}

\* raw texts of a 200 answer: those of VariantTexts and one with blanks around
ReadTexts ==
  VariantTexts \cup {<<" ">> \o PlainBody(Doc1(A, "1")) \o <<" ", " ">>}

\* the answer to the direct GET: status 0 is a fetch that rejects, the ETag
\* header of a 200 may be missing
ReadAnswers ==
  {[status |-> 200, text |-> t, etag |-> e] : t \in ReadTexts, e \in {NoEtag, 0, 1}}
    \cup {[status |-> st, text |-> <<>>, etag |-> NoEtag] : st \in {404, 500, 0}}

\* one call of the read per value of the cache entry, each with its own entry
ReadInit ==
  /\ parse \in
       {[phase |-> "reads", answer |-> a,
         runs |-> [c \in ReadStarts |->
                    [cache |-> c, pc |-> FirstRequest(c), reqs |-> <<>>, via |-> "none",
                     out |-> "running", result |-> [tags |-> EmptyObj, etag |-> NoEtag]]]]
          : a \in ReadAnswers}
  /\ StoreIdle
  /\ NoLoad
  /\ NoApp

\* GET /series/{id}/metadata of the call started with cache entry c
ReadIndex(c) ==
  /\ parse.phase = "reads"
  /\ parse.runs[c].pc = "index"
  /\ \E outcome \in {"listed", "silent", "error"} :
       LET updatedCache == CacheAfterIndex(parse.runs[c].cache, outcome) IN
       parse' = [parse EXCEPT !.runs[c] =
                   [parse.runs[c] EXCEPT
                      !.cache = updatedCache,
                      !.pc = IF updatedCache = "true" THEN "getIndexed" ELSE "probe",
                      !.reqs = Append(parse.runs[c].reqs, "INDEX")]]
  /\ UNCHANGED <<storeVars, loaderVars, app>>

\* GET /series/{id}/metadata/4096 of the call started with cache entry c
ReadGet(c) ==
  /\ parse.phase = "reads"
  /\ parse.runs[c].pc \in GetPcs
  /\ LET r == parse.runs[c]
         a == parse.answer IN
     parse' = [parse EXCEPT !.runs[c] =
       IF a.status = 0
       THEN [r EXCEPT !.pc = "failed", !.out = "threw", !.via = r.pc,
                      !.reqs = Append(r.reqs, "GET")]
       ELSE [r EXCEPT !.pc = "done", !.out = "returned", !.via = r.pc,
                      !.reqs = Append(r.reqs, "GET"),
                      !.cache = CacheAfterGet(r.cache, r.pc, a.status),
                      !.result = ReadReturns(r.pc, a.status, a.text, a.etag)]]
  /\ UNCHANGED <<storeVars, loaderVars, app>>

ReadNext ==
  \/ \E c \in ReadStarts : ReadIndex(c)
  \/ \E c \in ReadStarts : ReadGet(c)

ReadSpec == ReadInit /\ [][ReadNext]_vars

(***************************************************************************)
(* putSeriesCustomTags followed by getSeriesCustomTags, no other writer    *)
(***************************************************************************)

\* the key holds nothing or any text of ReadTexts, the cache entry any value
RoundTripInit ==
  /\ stored \in [Series -> {Absent} \cup {Present(t) : t \in ReadTexts}]
  /\ rev = [s \in Series |-> 0]
  /\ HAS_4096_CACHE \in [Series -> ReadStarts]
  /\ NoCalls
  /\ NoParse
  /\ NoLoad
  /\ NoApp

\* the call putSeriesCustomTags(s, patch)
RoundTripPut ==
  /\ calls = 0
  /\ CallPut(1)

\* the call getSeriesCustomTags(s) made after the put has resolved
RoundTripGet ==
  /\ calls = 1
  /\ task[1].pc = "done"
  /\ Call(2, "get", task[1].seriesId, EmptyMap, <<>>)

RoundTripNext ==
  \/ RoundTripPut
  \/ RoundTripGet
  \/ \E o \in Ops : Index(o)
  \/ \E o \in Ops : Get(o)
  \/ \E o \in Ops : PutA(o)
  \/ \E o \in Ops : PutB(o)

RoundTripSpec == RoundTripInit /\ [][RoundTripNext]_vars

(***************************************************************************)
(* App: the row set of the page and its refreshes                          *)
(***************************************************************************)

\* refreshes started after the one of the mount
MaxRefreshes == 2

\* uploads, edits and deletes the archive accepts
MaxChanges == 2

\* variant of OnRefreshFails that empties the table
OnRefreshFailsClears(series) == <<>>

\* catch (e) { console.error(...) }: the rows held stay
OnRefreshFails(series) == series

\* const copy = [...rows]; copy.sort(compare): the array sorted is a copy, the
\* rows held keep their order
RowsAfterSort(series) == series

\* refreshSeries(): loadSeriesForTable is called
refreshSeries(a) == [a EXCEPT !.refreshes = Append(@, [pc |-> "loading", rows |-> <<>>])]

\* the row the archive gives for a series after a tag of it was saved
Saved(r) == [r EXCEPT !.customTags = ProjectKey :> JStr(<<"2">>)]

\* the page is mounted over an archive of no or one series: useState([]) and
\* the refresh of the effect
PageInit ==
  /\ \E archive \in {<<>>, <<AllRows[1]>>} :
       app = refreshSeries([phase |-> "page", archive |-> archive, changes |-> 0,
                            series |-> <<>>, refreshes |-> <<>>, query |-> <<>>,
                            kvPairs |-> <<>>, sort |-> "none", editing |-> "none"])
  /\ StoreIdle
  /\ NoParse
  /\ NoLoad

\* loadSeriesForTable of refresh i reads the archive
LoadRows(i) ==
  /\ app.phase = "page" /\ app.refreshes[i].pc = "loading"
  /\ app' = [app EXCEPT !.refreshes[i] = [pc |-> "loaded", rows |-> app.archive]]
  /\ UNCHANGED <<storeVars, parse, loaderVars>>

\* const rows = await loadSeriesForTable(); setSeries(rows)
RefreshResolves(i) ==
  /\ app.phase = "page" /\ app.refreshes[i].pc = "loaded"
  /\ app' = [app EXCEPT !.refreshes[i].pc = "resolved",
                        !.series = app.refreshes[i].rows]
  /\ UNCHANGED <<storeVars, parse, loaderVars>>

\* loadSeriesForTable rejects: the catch of refreshSeries
RefreshRejects(i) ==
  /\ app.phase = "page" /\ app.refreshes[i].pc = "loading"
  /\ app' = [app EXCEPT !.refreshes[i].pc = "rejected",
                        !.series = OnRefreshFails(app.series)]
  /\ UNCHANGED <<storeVars, parse, loaderVars>>

\* a change of the archive that the page follows with a refresh is possible
CanChange ==
  /\ app.phase = "page"
  /\ app.changes < MaxChanges
  /\ Len(app.refreshes) < 1 + MaxRefreshes

\* UploadDicomButton: the upload is accepted, onUploaded()
onUploaded ==
  /\ CanChange
  /\ \E n \in 1..2 :
       /\ \A m \in DOMAIN app.archive : app.archive[m].id # AllRows[n].id
       /\ app' = refreshSeries([app EXCEPT !.archive = Append(@, AllRows[n]),
                                           !.changes = @ + 1])
  /\ UNCHANGED <<storeVars, parse, loaderVars>>

\* handleDelete(row): the DELETE is answered ok, await refreshSeries()
handleDelete(n) ==
  /\ CanChange
  /\ n \in DOMAIN app.series
  /\ app' = refreshSeries([app EXCEPT
               !.archive = SelectSeq(@, LAMBDA r : r.id # app.series[n].id),
               !.changes = @ + 1])
  /\ UNCHANGED <<storeVars, parse, loaderVars>>

\* handleEditCustomTags(row): setEditing(row)
handleEditCustomTags(n) ==
  /\ app.phase = "page" /\ app.editing = "none"
  /\ n \in DOMAIN app.series
  /\ app' = [app EXCEPT !.editing = app.series[n].id]
  /\ UNCHANGED <<storeVars, parse, loaderVars>>

\* onClose of the modal: setEditing(null)
onClose ==
  /\ app.phase = "page" /\ app.editing # "none"
  /\ app' = [app EXCEPT !.editing = "none"]
  /\ UNCHANGED <<storeVars, parse, loaderVars>>

\* applyChange of the modal: putSeriesCustomTags resolves, onSaved()
applyChange ==
  /\ CanChange
  /\ app.editing # "none"
  /\ \E m \in DOMAIN app.archive : app.archive[m].id = app.editing
  /\ app' = refreshSeries([app EXCEPT
               !.archive = [m \in DOMAIN @ |->
                              IF @[m].id = app.editing THEN Saved(@[m]) ELSE @[m]],
               !.changes = @ + 1])
  /\ UNCHANGED <<storeVars, parse, loaderVars>>

\* onQueryChange: setQuery
setQuery(v) ==
  /\ app.phase = "page" /\ app.query # v
  /\ app' = [app EXCEPT !.query = v]
  /\ UNCHANGED <<storeVars, parse, loaderVars>>

\* onAdvancedChange: setAdv
setAdv(v) ==
  /\ app.phase = "page" /\ app.kvPairs # v
  /\ app' = [app EXCEPT !.kvPairs = v]
  /\ UNCHANGED <<storeVars, parse, loaderVars>>

\* onHeaderClick of SeriesTable: asc, desc, none; sortedRows is computed anew
onHeaderClick ==
  /\ app.phase = "page"
  /\ app' = [app EXCEPT
               !.sort = IF @ = "none" THEN "asc" ELSE IF @ = "asc" THEN "desc" ELSE "none",
               !.series = RowsAfterSort(@)]
  /\ UNCHANGED <<storeVars, parse, loaderVars>>

PageNext ==
  \/ \E i \in DOMAIN app.refreshes : LoadRows(i)
  \/ \E i \in DOMAIN app.refreshes : RefreshResolves(i)
  \/ \E i \in DOMAIN app.refreshes : RefreshRejects(i)
  \/ onUploaded
  \/ \E n \in 1..2 : handleDelete(n)
  \/ \E n \in 1..2 : handleEditCustomTags(n)
  \/ onClose
  \/ applyChange
  \/ \E v \in {<<>>, <<"c", "t">>} : setQuery(v)
  \/ \E v \in {<<>>, <<DefaultKv>>} : setAdv(v)
  \/ onHeaderClick

PageSpec == PageInit /\ [][PageNext]_vars

(***************************************************************************)
(* Properties                                                              *)
(***************************************************************************)

Completed(o) == task[o].pc \in {"done", "failed"}

\* op o's write operation resolves in this step
WriteSucceeds(o) ==
  /\ task[o].kind \in WriteKinds
  /\ task[o].pc \in {"putA", "putB"}
  /\ task'[o].pc = "done"

\* the direct GET of op o is answered with status in this step
GetAnswered(o, status) ==
  /\ task[o].pc \in GetPcs
  /\ task'[o].pc \notin GetPcs
  /\ task'[o].status = status

\* the properties of the document a reader finds in a stored value
DocOf(value) == IF value.present THEN Spread(parseRaw(Trim(value.text))) ELSE EmptyMap

Has(doc, patch) == \A k \in DOMAIN patch : k \in DOMAIN doc /\ doc[k] = patch[k]

\* C1: a successful putSeriesCustomTags is never a blind overwrite: every key
\* stored just before the write that is not a key of the patch is still
\* stored with the same value afterwards.
C1_NeverBlindOverwrite ==
  [][\A o \in Ops :
       task[o].kind = "put" /\ WriteSucceeds(o) =>
         LET before == DocOf(stored[task[o].seriesId])
             after == DocOf(stored'[task[o].seriesId]) IN
         \A k \in DOMAIN before \ DOMAIN task[o].tags :
           k \in DOMAIN after /\ after[k] = before[k]]_vars

\* C2: when the read inside the write succeeded and no other writer
\* intervened, after a successful putSeriesCustomTags the stored document is
\* current united with the patch: the patch value on every key of the patch,
\* the current value on every other key, and no further key.
C2_StoredIsMerge ==
  [][\A o \in Ops :
       /\ task[o].kind = "put"
       /\ WriteSucceeds(o)
       /\ hist[o].readOk
       /\ ~hist[o].intervened
       => LET before == DocOf(stored[task[o].seriesId])
              after == DocOf(stored'[task[o].seriesId])
              patch == task[o].tags IN
          /\ DOMAIN after = DOMAIN before \cup DOMAIN patch
          /\ \A k \in DOMAIN patch : after[k] = patch[k]
          /\ \A k \in DOMAIN before \ DOMAIN patch : after[k] = before[k]]_vars

\* a set of c and then a put of {a:3, b:2} have left {a:3, b:2, c:1} of the
\* stored {a:1}
C2_Witness ==
  \E o \in Ops :
    /\ task[o].pc = "done" /\ task[o].kind = "put"
    /\ calls = 2 /\ externals = 0
    /\ DocOf(stored[task[o].seriesId])
         = [k \in {A, B, C} |->
              IF k = A THEN JStr(<<"3">>) ELSE IF k = B THEN JStr(<<"2">>) ELSE JStr(<<"1">>)]

\* C3: two overlapping put/set writes of different keys to one series, with
\* no other writer and every read answered (200 or 404): once both have
\* completed, the stored document contains both patches or at least one of
\* the two received an error.
C3_NoLostUpdate ==
  \A o1, o2 \in Ops :
    /\ o1 # o2
    /\ task[o1].pc = "done" /\ task[o2].pc = "done"
    /\ task[o1].kind \in {"put", "set"} /\ task[o2].kind \in {"put", "set"}
    /\ task[o1].seriesId = task[o2].seriesId
    /\ DOMAIN task[o1].tags \cap DOMAIN task[o2].tags = {}
    /\ hist[o1].concurrent /\ hist[o2].concurrent
    /\ ~hist[o1].readFailed /\ ~hist[o2].readFailed
    /\ calls = 2 /\ externals = 0
    => /\ Has(DocOf(stored[task[o1].seriesId]), task[o1].tags)
       /\ Has(DocOf(stored[task[o1].seriesId]), task[o2].tags)

\* C4: a write whose final response is the precondition failure (412) throws,
\* and what it throws differs from what a write throws for any other
\* rejected response.
C4_ConflictIsDistinct ==
  \A o \in Ops :
    task[o].kind \in WriteKinds /\ Completed(o) /\ task[o].status = 412 =>
      /\ task[o].pc = "failed"
      /\ \A p \in Ops :
           /\ task[p].kind \in WriteKinds
           /\ task[p].pc = "failed"
           /\ task[p].status # 412
           => task[p].err # task[o].err

\* C5: after any write operation (put, set, delete) on a series resolves,
\* the existence cache entry of the series is true.
C5_CacheTrueAfterWrite ==
  [][\A o \in Ops :
       WriteSucceeds(o) => HAS_4096_CACHE'[task[o].seriesId] = "true"]_vars

\* C6: a read that starts with the cache entry false issues the direct GET
\* first, without requesting the metadata index.
C6_CachedFalseSkipsIndex ==
  \A o \in Ops :
    task[o].cached = "false" /\ hist[o].reqs # <<>> => hist[o].reqs[1] = "GET"

\* C6 as amended: a read that starts with the cache entry false requests the
\* metadata index first and the direct GET after it.
C6_CachedFalseProbesIndex ==
  \A o \in Ops :
    task[o].cached = "false" /\ hist[o].reqs # <<>> =>
      /\ hist[o].reqs[1] = "INDEX"
      /\ Len(hist[o].reqs) >= 2 => hist[o].reqs[2] = "GET"

\* a call that started with the cache entry false has made its two read requests
C6_Witness ==
  \E o \in Ops : task[o].cached = "false" /\ Len(hist[o].reqs) >= 2

\* C7: the cache entry of a series becomes false only in a step in which a
\* direct GET of the key of that series is answered 404.
C7_FalseOnlyOn404 ==
  [][\A s \in Series :
       HAS_4096_CACHE[s] # "false" /\ HAS_4096_CACHE'[s] = "false" =>
         \E o \in Ops : task[o].seriesId = s /\ GetAnswered(o, 404)]_vars

\* the read of a write operation has been answered 404 and the entry is false
C7_Witness ==
  \E o \in Ops :
    /\ task[o].pc = "putA" /\ task[o].status = 404
    /\ hist[o].reqs = <<"INDEX", "GET">>
    /\ HAS_4096_CACHE[task[o].seriesId] = "false"

\* C8: the cache entry of a series becomes true only in a step in which a
\* direct read of the key or a write for that series succeeds.
C8_TrueOnlyAfterSuccess ==
  [][\A s \in Series :
       HAS_4096_CACHE[s] # "true" /\ HAS_4096_CACHE'[s] = "true" =>
         \E o \in Ops :
           task[o].seriesId = s /\ (GetAnswered(o, 200) \/ WriteSucceeds(o))]_vars

\* C8 as amended: the cache entry of a series becomes true only in a step in
\* which a direct read of the key succeeds, a write for the series succeeds,
\* or the metadata index lists the key while it exists; and a direct GET
\* that fails with another status than 404, or at the network level, leaves
\* the entry as it was.
C8_TrueOnlyAfterSuccessOrIndex ==
  [][\A s \in Series :
       /\ HAS_4096_CACHE[s] # "true" /\ HAS_4096_CACHE'[s] = "true" =>
            \E o \in Ops :
              /\ task[o].seriesId = s
              /\ \/ GetAnswered(o, 200)
                 \/ WriteSucceeds(o)
                 \/ task[o].pc = "index" /\ task'[o].pc = "getIndexed"
                      /\ stored[s].present
       /\ \A o \in Ops :
            task[o].seriesId = s /\ (GetAnswered(o, 500) \/ GetAnswered(o, 0)) =>
              HAS_4096_CACHE'[s] = HAS_4096_CACHE[s]]_vars

\* the only call made so far is a read whose direct GET was answered 500,
\* and the entry is true from the index listing
C8_Witness ==
  \E o \in Ops :
    /\ task[o].pc = "done" /\ task[o].kind = "get" /\ task[o].status = 500
    /\ HAS_4096_CACHE[task[o].seriesId] = "true"
    /\ calls = 1

\* C9: the metadata read never throws, and it returns the empty document
\* with a null version token whenever the direct read was not a success.
C9_ReadNeverThrows ==
  \A o \in Ops :
    task[o].kind = "get" =>
      /\ task[o].pc # "failed"
      /\ task[o].pc = "done" /\ task[o].status # 200 =>
           task[o].current = EmptyObj /\ task[o].etag = NoEtag

\* C10: a completed write operation that saw no PUT accepted has thrown, and
\* one that resolved has seen a PUT accepted.
C10_WriteThrowsUnlessAccepted ==
  \A o \in Ops :
    task[o].kind \in WriteKinds /\ Completed(o) =>
      /\ ~hist[o].putAccepted => task[o].pc = "failed" /\ task[o].err # "none"
      /\ task[o].pc = "done" => hist[o].putAccepted

\* a write operation has thrown after both encoding attempts were rejected
C10_Witness ==
  \E o \in Ops :
    /\ task[o].kind \in WriteKinds /\ task[o].pc = "failed"
    /\ task[o].status = 400 /\ ~hist[o].putAccepted

IsPut(r) == r \in {"PUT-A", "PUT-B"}

\* op o gets the answer to the PUT of attempt A / attempt B in this step
AnsweredA(o) == task[o].pc = "putA" /\ task'[o].pc # "putA"

AnsweredB(o) == task[o].pc = "putB" /\ task'[o].pc # "putB"

\* C11: within one write operation the plain text is the first PUT; the
\* double-encoded form is sent only as the second PUT, after the plain one
\* was answered and rejected; no PUT follows an accepted one, so at most two
\* are sent; and the write resolves exactly in the step in which a PUT is
\* accepted.
C11_PlainThenDoubleEncoded ==
  [][\A o \in Ops :
       LET puts == SelectSeq(hist[o].reqs, IsPut) IN
       /\ AnsweredA(o) => puts = <<>>
       /\ AnsweredB(o) => puts = <<"PUT-A">> /\ task[o].status \notin {0, 200}
       /\ (AnsweredA(o) \/ AnsweredB(o)) /\ task'[o].status = 200 => task'[o].pc = "done"
       /\ WriteSucceeds(o) => task'[o].status = 200]_vars

\* a lone write has resolved and left the double-encoded form in the archive:
\* its plain attempt was rejected and its second attempt accepted
C11_Witness ==
  \E o \in Ops :
    /\ task[o].pc = "done" /\ task[o].kind \in WriteKinds
    /\ calls = 1 /\ externals = 0
    /\ stored[task[o].seriesId].present
    /\ Head(stored[task[o].seriesId].text) = QUOTE

\* C12: a PUT of a write operation whose read returned a version token is
\* conditional on that token, on the plain and on the double-encoded attempt:
\* it is accepted only while the token is the current revision of the key,
\* and answered 412 otherwise; a PUT is answered 412 only when the read
\* returned a token.
C12_PutCarriesReadToken ==
  [][\A o \in Ops :
       AnsweredA(o) \/ AnsweredB(o) =>
         LET token == task[o].etag
             current == rev[task[o].seriesId] IN
         /\ token # NoEtag /\ task'[o].status = 200 => token = current
         /\ token # NoEtag /\ token # current => task'[o].status \in {412, 400, 0}
         /\ task'[o].status = 412 => token # NoEtag /\ token # current]_vars

\* a write has thrown after its double-encoded attempt, carrying the token of
\* its read, was answered 412
C12_Witness ==
  \E o \in Ops :
    /\ task[o].kind \in WriteKinds /\ task[o].pc = "failed" /\ task[o].status = 412
    /\ ~hist[o].readFailed

\* C15: when the read inside deleteSeriesCustomTag succeeded and no other
\* writer intervened, after it resolves the stored document is the document
\* read without the key: the key is absent, every other key has the value it
\* had, and there is no further key.
C15_DeleteRemovesKey ==
  [][\A o \in Ops :
       /\ task[o].kind = "delete"
       /\ WriteSucceeds(o)
       /\ hist[o].readOk
       /\ ~hist[o].intervened
       => LET before == DocOf(stored[task[o].seriesId])
              after == DocOf(stored'[task[o].seriesId])
              k == task[o].tagName IN
          /\ k \notin DOMAIN after
          /\ DOMAIN after = DOMAIN before \ {k}
          /\ \A x \in DOMAIN after : after[x] = before[x]]_vars

\* a put of {a:3, b:2} and then a delete of a have left {b:2}
C15_Witness ==
  \E o \in Ops :
    /\ task[o].pc = "done" /\ task[o].kind = "delete" /\ task[o].tagName = A
    /\ calls = 2 /\ externals = 0
    /\ DocOf(stored[task[o].seriesId]) = Doc1(B, "2").m

\* C13: the result of the parsing rule has the properties of the value of
\* the text parsed once, and parsed a second time when the first value is a
\* string, if that final value is a JSON object; for every other final value
\* (array, number, string) and for a text that fails to parse at either
\* stage or is empty, the result has no property: it is the empty document.
C13_OnlyObjectsAccepted ==
  parse.phase = "parsed" =>
    LET first == JSONparse(parse.rawText)
        final == IF first.ok /\ first.v.t = "str" THEN JSONparse(first.v.s) ELSE first IN
    Spread(parse.result) = IF final.ok /\ final.v.t = "obj" THEN final.v.m ELSE EmptyMap

\* C14: a document serialised as plain JSON text, or double-encoded, and
\* parsed by the parsing rule is the document again.
C14_RoundTrip ==
  parse.phase = "parsed" /\ parse.form \in {"plain", "double"} => parse.result = parse.doc

\* a document whose key is a quote and whose values hold a backslash and a
\* control character has come back from its double-encoded form
C14_Witness ==
  /\ parse.phase = "parsed" /\ parse.form = "double"
  /\ parse.doc = Doc2(<<QUOTE>>, BACKSLASH, A, "<BS>")
  /\ parse.result = parse.doc

\* normalizeSeriesItem has returned the row of match i
RowReturned(i) == i \in DOMAIN agg /\ agg[i].pc = "done"

\* the maps match i got from its patient, study and series requests (empty
\* for a request that gave nothing or was not made) and its hint
Sources(i) ==
  <<MainDicomTagsOf(agg[i].patient), MainDicomTagsOf(agg[i].study),
    MainDicomTagsOf(agg[i].series), agg[i].hint>>

KeysOf(src) == UNION {DOMAIN src[n] : n \in 1..Len(src)}

\* the value of key k in the last of the sources that contains it
LastValue(src, k) ==
  src[CHOOSE n \in 1..Len(src) :
        k \in DOMAIN src[n] /\ \A j \in (n + 1)..Len(src) : k \notin DOMAIN src[j]][k]

FallbackKeys == {"StudyDate", "PatientName"}

\* C16: the attribute map of a returned row has exactly the keys of the
\* patient, study, series and hint maps, and for every key the value of the
\* last of patient, study, series, hint that contains the key.
C16_RowIsMerge ==
  \A i \in DOMAIN agg :
    RowReturned(i) =>
      LET row == agg[i].requestedTags
          src == Sources(i) IN
      /\ DOMAIN row = KeysOf(src)
      /\ \A k \in DOMAIN row : row[k] = LastValue(src, k)

\* C16 as amended: apart from StudyDate and PatientName, the attribute map of
\* a returned row has exactly the keys of the patient, study, series and hint
\* maps, with the value of the last of them that contains the key; StudyDate
\* and PatientName are present when one of the maps contains them, and have
\* the value of the last such map when that value is not empty.
C16_RowIsMergeButFallbacks ==
  \A i \in DOMAIN agg :
    RowReturned(i) =>
      LET row == agg[i].requestedTags
          src == Sources(i) IN
      /\ DOMAIN row \ FallbackKeys = KeysOf(src) \ FallbackKeys
      /\ \A k \in DOMAIN row \ FallbackKeys : row[k] = LastValue(src, k)
      /\ \A k \in FallbackKeys \cap KeysOf(src) :
           /\ k \in DOMAIN row
           /\ LastValue(src, k) # "" => row[k] = LastValue(src, k)

\* patient PatientID=p and study PatientID=st, neither series nor hint
\* holding the key: the row has PatientID=st
C16_Witness ==
  /\ RowReturned(1)
  /\ Sources(1) = <<"PatientID" :> "p", "PatientID" :> "st", NoTags, NoTags>>
  /\ agg[1].requestedTags["PatientID"] = "st"

\* the value the fallback step leaves at key to, copied from key from, in
\* the merged map m: none when the key stays absent
AfterFallback(m, to, from) ==
  IF ~Truthy(m, to) /\ Truthy(m, from) THEN {m[from]}
  ELSE IF to \in DOMAIN m THEN {m[to]} ELSE {}

\* C17: with m the merge of the maps of a returned row: StudyDate is
\* SeriesDate of m when StudyDate is empty or absent in m and SeriesDate is
\* present and not empty, and as in m otherwise; PatientName likewise from
\* PatientID; every other key is as in m.
C17_Fallbacks ==
  \A i \in DOMAIN agg :
    RowReturned(i) =>
      LET row == agg[i].requestedTags
          src == Sources(i)
          m == MergeAttrs(src[1], src[2], src[3], src[4])
          ValueAt(k) == IF k \in DOMAIN row THEN {row[k]} ELSE {} IN
      /\ ValueAt("StudyDate") = AfterFallback(m, "StudyDate", "SeriesDate")
      /\ ValueAt("PatientName") = AfterFallback(m, "PatientName", "PatientID")
      /\ DOMAIN row \ FallbackKeys = DOMAIN m \ FallbackKeys
      /\ \A k \in DOMAIN row \ FallbackKeys : row[k] = m[k]

\* the study holds an empty StudyDate and the series SeriesDate=se: the row
\* has StudyDate=se and still SeriesDate=se
C17_Witness ==
  /\ RowReturned(1)
  /\ Sources(1) = <<NoTags, "StudyDate" :> "", "SeriesDate" :> "se", NoTags>>
  /\ agg[1].requestedTags = ("StudyDate" :> "se" @@ "SeriesDate" :> "se")

\* C18: the row returned for a match whose series request gave nothing has
\* no attributes, zero slices and no custom tags.
C18_EmptyRowWhenSeriesMissing ==
  \A i \in DOMAIN agg :
    RowReturned(i) /\ agg[i].id # "" /\ agg[i].series = Null =>
      /\ agg[i].requestedTags = NoTags
      /\ agg[i].slices = 0
      /\ Spread(agg[i].customTags) = EmptyMap

\* C19: a match whose series request succeeded and whose study request gave
\* nothing makes no patient request, and its row is returned with the merge
\* of the series attributes and the hint (hint first), after the fallbacks.
C19_MissingStudy ==
  \A i \in DOMAIN agg :
    /\ agg[i].series # Null
    /\ agg[i].study = Null
    /\ agg[i].pc \notin {"series", "study"}
    => /\ \A n \in 1..Len(agg[i].reqs) : agg[i].reqs[n] # "PATIENT"
       /\ agg[i].pc # "rejected"
       /\ LET se == agg[i].series.MainDicomTags
              h == agg[i].hint
              m == [k \in DOMAIN se \cup DOMAIN h |-> IF k \in DOMAIN h THEN h[k] ELSE se[k]] IN
          agg[i].requestedTags = Fallbacks(m)

\* the series holds SeriesDate=se, the hint PatientID=h, the study request
\* gave nothing: the row is returned with those two and their fallbacks
C19_Witness ==
  /\ RowReturned(1)
  /\ agg[1].series # Null /\ agg[1].study = Null
  /\ agg[1].reqs[2] = "STUDY"
  /\ agg[1].requestedTags =
       ("SeriesDate" :> "se" @@ "StudyDate" :> "se" @@ "PatientID" :> "h" @@ "PatientName" :> "h")

\* every request made for match i was answered with what the archive holds
AllAnswered(i) ==
  /\ agg[i].series # Null /\ agg[i].study # Null /\ agg[i].patient # Null
  /\ agg[i].status = IF stored[agg[i].id].present THEN 200 ELSE 404

\* the row of match i as the archive's resources and the stored key give it
FullRow(i) ==
  LET id == found[i].ID
      series == resources.series[id]
      study == resources.studies[series.ParentStudy]
      patient == resources.patients[study.ParentPatient] IN
  [id |-> id, slices |-> SlicesOf(series),
   requestedTags |->
     Fallbacks(MergeAttrs(patient.MainDicomTags, study.MainDicomTags,
                          series.MainDicomTags, found[i].RequestedTags)),
   customTags |-> IF stored[id].present THEN parseRaw(Trim(stored[id].text)) ELSE EmptyObj]

\* C20: loadSeriesForTable rejects only when the find request failed, never
\* because of a request made for a match; and its result has one row per
\* match, in order, the row of a match whose own requests were all answered
\* being the full row of that series whatever happened to the others.
C20_FailuresAreIsolated ==
  /\ load.pc = "rejected" => load.cause = "find"
  /\ load.pc = "done" =>
       /\ Len(load.rows) = Len(found)
       /\ \A i \in DOMAIN found :
            /\ load.rows[i].id = found[i].ID
            /\ AllAnswered(i) => load.rows[i] = FullRow(i)

\* two matches: the series request of the first gave nothing and its read of
\* the key threw; the second has its full row, and both rows are returned
C20_Witness ==
  /\ load.pc = "done" /\ Len(load.rows) = 2
  /\ agg[1].series = Null /\ agg[1].status = 0 /\ agg[1].reqs = <<"SERIES", "INDEX", "GET">>
  /\ AllAnswered(2)
  /\ load.rows[2].requestedTags =
       ("SeriesDate" :> "s2" @@ "StudyDate" :> "st" @@ "PatientID" :> "p" @@ "PatientName" :> "p")

\* the find answer is a list none of whose items gives an identifier
NoneResolvable(raw) == raw.t = "array" /\ \A i \in DOMAIN raw.e : raw.e[i] \in Unresolvable

\* C21: when the bulk find returns the empty list, or a list in which no item
\* has a resolvable identifier, the step that receives the answer completes
\* loadSeriesForTable with the empty row set: no aggregation is started, so
\* no series, study, patient or metadata request is issued and the existence
\* cache is untouched
C21_EmptyFindShortCircuits ==
  [][(load.pc = "finding" /\ load'.pc \notin {"finding", "rejected"}
        /\ NoneResolvable(resources.find))
     => (load'.pc = "done" /\ load'.rows = <<>> /\ agg' = <<>>
           /\ HAS_4096_CACHE' = HAS_4096_CACHE)]_vars

\* C21 witness: the find answered a list of one null item and the loader
\* returned no row without starting an aggregation
C21_Witness ==
  /\ load.pc = "done" /\ load.rows = <<>> /\ agg = <<>>
  /\ resources.find = ArrVal(<<NullVal>>)

\* the identifier the coercion rule gives an item: the string itself, or the
\* first of the fields ID, Id, SeriesID, Series that is present
ClaimedId(it) ==
  IF it.t = "string" THEN it.v
  ELSE IF it.t # "object" THEN ""
  ELSE IF ~Nullish(it.f, "ID") THEN it.f["ID"].v
  ELSE IF ~Nullish(it.f, "Id") THEN it.f["Id"].v
  ELSE IF ~Nullish(it.f, "SeriesID") THEN it.f["SeriesID"].v
  ELSE IF ~Nullish(it.f, "Series") THEN it.f["Series"].v
  ELSE ""

\* the hint the coercion rule gives an item
ClaimedHint(it) ==
  IF it.t # "object" THEN NoTags
  ELSE IF ~Nullish(it.f, "RequestedTags") THEN it.f["RequestedTags"].f
  ELSE IF ~Nullish(it.f, "requestedTags") THEN it.f["requestedTags"].f
  ELSE NoTags

\* the position in the payload of the n-th item that has an identifier
KeptAt(e, n) ==
  CHOOSE i \in DOMAIN e :
    /\ ClaimedId(e[i]) # ""
    /\ Cardinality({j \in 1..i : ClaimedId(e[j]) # ""}) = n

\* C22: findSeries coerces the payload item by item and in order: a string
\* item becomes a match with that identifier and an empty hint, an object
\* item takes its identifier from the first present of ID, Id, SeriesID,
\* Series and its hint from RequestedTags or requestedTags, items without a
\* non-empty identifier are discarded, and a payload that is not a list gives
\* the empty list
C22_FindCoerces ==
  load.pc = "returned" =>
    LET raw == resources.find IN
    IF raw.t # "array" THEN found = <<>>
    ELSE
      /\ Len(found) = Cardinality({i \in DOMAIN raw.e : ClaimedId(raw.e[i]) # ""})
      /\ \A n \in DOMAIN found :
           found[n] = [ID |-> ClaimedId(raw.e[KeptAt(raw.e, n)]),
                       RequestedTags |-> ClaimedHint(raw.e[KeptAt(raw.e, n)])]

\* C22 witness: a list of an item without identifier and an object that
\* names its identifier Series and its hint requestedTags was coerced to the
\* one match
C22_Witness ==
  /\ load.pc = "returned"
  /\ resources.find =
       ArrVal(<<NumVal, ObjVal("Series" :> StrVal("s1") @@ "requestedTags" :> ObjVal(HintA))>>)
  /\ found = <<[ID |-> "s1", RequestedTags |-> HintA]>>

\* C23: when the bulk find is answered with a non-2xx status or fails at the
\* network level, loadSeriesForTable yields an empty result and does not throw
C23_FindFailsClosed == ~(load.pc = "rejected" /\ load.cause = "find")

\* the requests of the i-th aggregation issued so far: those answered and the
\* one in flight
Issued(a) ==
  a.reqs \o (IF a.pc = "series" THEN <<"SERIES">>
             ELSE IF a.pc = "study" THEN <<"STUDY">>
             ELSE IF a.pc = "patient" THEN <<"PATIENT">>
             ELSE IF a.pc = "index" THEN <<"INDEX">>
             ELSE IF a.pc \in GetPcs THEN <<"GET">>
             ELSE <<>>)

\* the step a request belongs to
StepOf(r) ==
  IF r = "SERIES" THEN 1 ELSE IF r = "STUDY" THEN 2 ELSE IF r = "PATIENT" THEN 3 ELSE 4

Asked(reqs, r) == \E n \in DOMAIN reqs : reqs[n] = r

IsReference(id) == id # Undefined /\ id # ""

\* C30: within one aggregation the requests are issued in the order series,
\* study, patient, custom tags, each only after every earlier request was
\* answered; the study request only if the series answer carried a parent
\* study, the patient request only if the study answer carried a parent patient
C30_RequestsAreOrdered ==
  \A i \in DOMAIN agg :
    LET a == agg[i]
        issued == Issued(a) IN
    /\ \A m, n \in DOMAIN issued :
         m < n => /\ StepOf(issued[m]) <= StepOf(issued[n])
                  /\ issued[m] # issued[n]
                  /\ m \in DOMAIN a.reqs
    /\ issued # <<>> => issued[1] = "SERIES"
    /\ Asked(issued, "STUDY") =>
         a.series # Null /\ IsReference(a.series.ParentStudy)
    /\ Asked(issued, "PATIENT") =>
         /\ Asked(a.reqs, "STUDY")
         /\ a.study # Null /\ IsReference(a.study.ParentPatient)
    /\ (Asked(issued, "INDEX") \/ Asked(issued, "GET")) =>
         /\ Asked(a.reqs, "SERIES")
         /\ Asked(issued, "STUDY") => Asked(a.reqs, "STUDY")
         /\ Asked(issued, "PATIENT") => Asked(a.reqs, "PATIENT")

\* C30 witness: an aggregation issued all four steps, one after the other
C30_Witness ==
  \E i \in DOMAIN agg :
    /\ agg[i].pc = "done"
    /\ agg[i].reqs = <<"SERIES", "STUDY", "PATIENT", "INDEX", "GET">>

Shown == app.phase = "shown"

\* the row is among the visible rows
Visible(r) == \E n \in DOMAIN app.visible : app.visible[n] = r

\* a tag filter with an empty key and no usable value (string modes) or no
\* bound (dateRange); blanks around what the user typed do not count
ClaimedInert(kv) ==
  /\ Trim(kv.key) = <<>>
  /\ IF kv.mode = "dateRange" THEN Trim(kv.from) = <<>> /\ Trim(kv.to) = <<>>
     ELSE Trim(kv.value) = <<>>

\* the namespace a tag filter selects
Selected(kv, r) == IF kv.scope = "custom" THEN r.customTags ELSE r.requestedTags

\* the keys of the selected namespace whose name contains the key filter,
\* case-insensitively; every key when the filter is empty
Candidates(kv, r) ==
  {k \in DOMAIN Selected(kv, r) :
     Trim(kv.key) = <<>> \/ includes(toLowerCase(k), toLowerCase(Trim(kv.key)))}

\* the value satisfies the mode of the tag filter
ValueOk(kv, value) == IF kv.mode = "dateRange" THEN DateOk(kv, value) ELSE StringOk(kv, value)

\* C24: a row is visible iff every non-inert tag filter matches it and the
\* query is empty or matches it; a tag filter matches a row iff at least one
\* candidate key of the selected namespace has a value satisfying its mode,
\* so a filter without candidate key excludes the row
C24_VisibleIffAllMatch ==
  Shown =>
    app.visible =
      SelectSeq(app.series,
        LAMBDA r :
          /\ \A i \in DOMAIN app.kvPairs :
               LET kv == app.kvPairs[i] IN
               ClaimedInert(kv) \/ \E k \in Candidates(kv, r) : ValueOk(kv, Selected(kv, r)[k])
          /\ Trim(app.query) = <<>> \/ FreeTextOk(r, toLowerCase(Trim(app.query))))

\* C24 witness: the filter custom / equals / Project / Fenix on a row with
\* Project Fenix and a row with Project Other shows the first row only
C24_Witness ==
  /\ Shown
  /\ app.series = <<AllRows[1], AllRows[2]>>
  /\ app.query = <<>>
  /\ app.kvPairs = <<KVPair("custom", "equals", ProjectKey, Fenix, <<>>, <<>>)>>
  /\ app.visible = <<AllRows[1]>>

\* one tag filter, no query: the visible rows show which values satisfy it
OneFilter == Shown /\ Len(app.kvPairs) = 1 /\ Trim(app.query) = <<>>

\* val contains, equals, starts with or ends with rhs
ClaimedRelation(mode, val, rhs) ==
  \/ mode = "contains" /\ includes(val, rhs)
  \/ mode = "equals" /\ val = rhs
  \/ mode = "startsWith" /\ startsWith(val, rhs)
  \/ mode = "endsWith" /\ endsWith(val, rhs)

\* C25, as claimed: for every non-inert tag filter in a string mode and for
\* every value of the filter, a candidate value satisfies it iff, compared
\* case-insensitively, it contains, equals, starts with or ends with that value
C25_StringModes ==
  (OneFilter /\ app.kvPairs[1].mode \in StringModes /\ ~ClaimedInert(app.kvPairs[1])) =>
    LET kv == app.kvPairs[1] IN
    \A n \in DOMAIN app.series :
      LET r == app.series[n] IN
      Visible(r) <=>
        \E k \in Candidates(kv, r) :
          ClaimedRelation(kv.mode, toLowerCase(toString(Selected(kv, r)[k])),
                          toLowerCase(Trim(kv.value)))

\* C25, amended: the relation decides when the value of the filter is not
\* empty; with an empty value, in each of the four modes, a candidate value
\* satisfies the filter iff it is not empty
C25_StringModesNonEmptyValue ==
  (OneFilter /\ app.kvPairs[1].mode \in StringModes /\ ~ClaimedInert(app.kvPairs[1])) =>
    LET kv == app.kvPairs[1] IN
    \A n \in DOMAIN app.series :
      LET r == app.series[n] IN
      Visible(r) <=>
        \E k \in Candidates(kv, r) :
          LET val == toLowerCase(toString(Selected(kv, r)[k])) IN
          IF Trim(kv.value) = <<>> THEN val # <<>>
          ELSE ClaimedRelation(kv.mode, val, toLowerCase(Trim(kv.value)))

\* C25 witness: the filter custom / endsWith / proj / nix shows the row whose
\* Project is Fenix and hides the row whose Project is Other
C25_Witness ==
  /\ OneFilter
  /\ app.kvPairs[1] = KVPair("custom", "endsWith", <<"p", "r", "o", "j">>, <<"n", "i", "x">>, <<>>, <<>>)
  /\ app.series = <<AllRows[1], AllRows[2]>>
  /\ app.visible = <<AllRows[1]>>

\* C26: a contains filter with a key filter and an empty value matches a row
\* iff some candidate key of the selected namespace has a non-empty value
C26_ContainsEmptyValue ==
  (OneFilter /\ app.kvPairs[1].mode = "contains" /\ Trim(app.kvPairs[1].key) # <<>>
     /\ Trim(app.kvPairs[1].value) = <<>>) =>
    LET kv == app.kvPairs[1] IN
    \A n \in DOMAIN app.series :
      LET r == app.series[n] IN
      Visible(r) <=> \E k \in Candidates(kv, r) : toString(Selected(kv, r)[k]) # <<>>

\* C26 witness: contains / proj with no value shows the row whose Project is
\* Fenix and hides the row whose Project is the empty text
C26_Witness ==
  /\ OneFilter
  /\ app.kvPairs[1] = KVPair("custom", "contains", <<"p", "r", "o", "j">>, <<>>, <<>>, <<>>)
  /\ app.series = <<AllRows[1], AllRows[3]>>
  /\ app.visible = <<AllRows[1]>>

\* v is exactly 8 digits and lies between the bounds that are given
InRange(v, from, to) ==
  /\ IsDateToken(v)
  /\ from = <<>> \/ ~LessThan(v, from)
  /\ to = <<>> \/ ~LessThan(to, v)

\* C27, as claimed: a dateRange filter is satisfied by a candidate value iff
\* the value is exactly 8 digits and not below the lower bound and not above
\* the upper bound, where given, in lexicographic order
C27_DateRange ==
  (OneFilter /\ app.kvPairs[1].mode = "dateRange" /\ ~ClaimedInert(app.kvPairs[1])) =>
    LET kv == app.kvPairs[1] IN
    \A n \in DOMAIN app.series :
      LET r == app.series[n] IN
      Visible(r) <=>
        \E k \in Candidates(kv, r) :
          InRange(toString(Selected(kv, r)[k]), Trim(kv.from), Trim(kv.to))

\* C27, amended: the value is taken without the blanks around it
C27_DateRangeOfTrimmedValue ==
  (OneFilter /\ app.kvPairs[1].mode = "dateRange" /\ ~ClaimedInert(app.kvPairs[1])) =>
    LET kv == app.kvPairs[1] IN
    \A n \in DOMAIN app.series :
      LET r == app.series[n] IN
      Visible(r) <=>
        \E k \in Candidates(kv, r) :
          InRange(Trim(toString(Selected(kv, r)[k])), Trim(kv.from), Trim(kv.to))

\* C27 witness: key SeriesDate, from 20240101, to 20240131 shows the row with
\* SeriesDate 20240115 and hides the row with 20240201
C27_Witness ==
  /\ OneFilter
  /\ app.kvPairs[1] = KVPair("dicom", "dateRange", SeriesDateKey, <<>>, D20240101, D20240131)
  /\ app.series = <<AllRows[1], AllRows[2]>>
  /\ app.visible = <<AllRows[1]>>

\* kvPairs' is kvPairs with an inert tag filter appended
InertAdded ==
  /\ Len(app'.kvPairs) = Len(app.kvPairs) + 1
  /\ SubSeq(app'.kvPairs, 1, Len(app.kvPairs)) = app.kvPairs
  /\ ClaimedInert(app'.kvPairs[Len(app'.kvPairs)])

\* kvPairs' is kvPairs without one of its inert tag filters
InertRemoved ==
  \E idx \in DOMAIN app.kvPairs :
    /\ ClaimedInert(app.kvPairs[idx])
    /\ app'.kvPairs = [n \in 1..(Len(app.kvPairs) - 1) |->
                         IF n < idx THEN app.kvPairs[n] ELSE app.kvPairs[n + 1]]

\* C28: adding or removing an inert tag filter never changes the visible
\* rows; when every tag filter is inert and the query is empty after
\* trimming, the visible rows are the full row set
C28_InertFilters ==
  [][/\ (Shown /\ (InertAdded \/ InertRemoved)) => app'.visible = app.visible
     /\ (app'.phase = "shown" /\ Trim(app'.query) = <<>>
           /\ \A i \in DOMAIN app'.kvPairs : ClaimedInert(app'.kvPairs[i]))
        => app'.visible = app'.series]_vars

\* C28 witness: an inert tag filter stands next to a filter that hides a row
C28_Witness ==
  /\ Shown
  /\ app.series = <<AllRows[1], AllRows[2]>>
  /\ app.kvPairs = <<KVPair("custom", "equals", ProjectKey, Fenix, <<>>, <<>>), DefaultKv>>
  /\ app.visible = <<AllRows[1]>>

\* the query is contained, case-insensitively, in a string value of the
\* attributes or of the custom tags, or in the slice count as a decimal
ClaimedFreeText(r, q) ==
  \/ \E k \in DOMAIN r.requestedTags :
       IsString(r.requestedTags[k]) /\ includes(toLowerCase(r.requestedTags[k].s), q)
  \/ \E k \in DOMAIN r.customTags :
       IsString(r.customTags[k]) /\ includes(toLowerCase(r.customTags[k].s), q)
  \/ includes(DecimalString(r.slices), q)

\* C29: a non-empty query matches a row iff it is contained in such a value;
\* a row with no such value is hidden even when every tag filter matches it
C29_FreeText ==
  (Shown /\ Trim(app.query) # <<>>) =>
    \A n \in DOMAIN app.series :
      LET r == app.series[n] IN
      Visible(r) <=>
        /\ RowVisible(r, <<>>, app.kvPairs)
        /\ ClaimedFreeText(r, toLowerCase(Trim(app.query)))

\* C29 witness: the query 3 shows the row of 3 slices, none of whose texts
\* contains a 3, and hides a row of 12 slices
C29_Witness ==
  /\ Shown
  /\ app.query = <<"3">>
  /\ app.kvPairs = <<>>
  /\ app.series = <<AllRows[2], AllRows[5]>>
  /\ app.visible = <<AllRows[5]>>

\* the slice count C31 states for the answer of the series request
ClaimedSlices(series) ==
  IF series # Null /\ series.InstancesCount.t = "number" THEN series.InstancesCount.v
  ELSE IF series # Null /\ series.Instances.t = "array" THEN Len(series.Instances.e)
  ELSE 0

\* C31: once the series request of an aggregation is answered, the slices of
\* its row are the numeric InstancesCount of the series resource when it has
\* one, else the length of Instances when that is a list, else 0, and 0 when the
\* series could not be fetched; the rows loadSeriesForTable returns carry the
\* same counts.
C31_SliceCount ==
  /\ \A i \in DOMAIN agg :
       agg[i].pc # "series" /\ agg[i].id # "" =>
         agg[i].slices = ClaimedSlices(agg[i].series)
  /\ load.pc = "done" =>
       \A j \in DOMAIN load.rows :
         \E i \in DOMAIN agg :
           /\ agg[i].id = load.rows[j].id
           /\ load.rows[j].slices = ClaimedSlices(agg[i].series)

\* C31 witness: a returned row counts the three instances of a list because
\* InstancesCount is a text, not a number
C31_Witness ==
  /\ load.pc = "done" /\ Len(load.rows) = 1
  /\ agg[1].series # Null
  /\ agg[1].series.InstancesCount = StrVal("2")
  /\ agg[1].series.Instances.t = "array"
  /\ load.rows[1].slices = 3

\* C32: no step of a Collection Loader pass changes the archive: the stored
\* documents, their revisions and the series, study and patient resources stay
\* as they are, the pass sends the find POST and nothing else, and every
\* aggregation sends GET requests only, so the values the fallbacks put into a
\* row are written nowhere.
C32_LoaderOnlyReads ==
  [][/\ stored' = stored
     /\ rev' = rev
     /\ resources' = resources
     /\ load'.sent \subseteq {"POST"}
     /\ \A i \in DOMAIN agg' : agg'[i].sent \subseteq {"GET"}]_vars

\* C32 witness: a returned row shows the series date as study date, no source
\* gave a study date, and the pass sent one POST and GET requests
C32_Witness ==
  /\ load.pc = "done" /\ Len(load.rows) = 1
  /\ load.sent = {"POST"} /\ agg[1].sent = {"GET"}
  /\ agg[1].series # Null /\ agg[1].study # Null /\ agg[1].patient # Null
  /\ \A src \in {agg[1].series, agg[1].study, agg[1].patient} :
       "StudyDate" \notin DOMAIN src.MainDicomTags
  /\ "StudyDate" \notin DOMAIN agg[1].hint
  /\ "StudyDate" \in DOMAIN load.rows[1].requestedTags
  /\ load.rows[1].requestedTags["StudyDate"] = "se"
  /\ stored[load.rows[1].id] = Present(JSONstringify(Doc1(A, "1")))

\* the positions of a call inside its read
ReadPcs == GetPcs \cup {"index"}

\* op o, inside its read, is answered a request in this step
ReadStep(o) == task[o].pc \in ReadPcs /\ task'[o] # task[o]

\* C33: a read that found the cache entry true when it started is answered one
\* request only, the direct GET of the key, which is its first request and
\* ends the read; when the answer is 404 the entry is false after the step and
\* the read gives the empty document and no token.
C33_CachedTrueReadsDirectly ==
  [][\A o \in Ops :
       ReadStep(o) /\ task[o].cached = "true" =>
         /\ task[o].pc = "getCached"
         /\ hist[o].reqs = <<>>
         /\ task'[o].pc \notin ReadPcs
         /\ task'[o].status = 404 =>
              /\ HAS_4096_CACHE'[task[o].seriesId] = "false"
              /\ task'[o].pc # "failed"
              /\ task'[o].current = EmptyObj
              /\ task'[o].etag = NoEtag]_vars

\* C33 witness: a write operation that started with the entry true has read
\* with one GET, answered 404, and the entry is false
C33_Witness ==
  \E o \in Ops :
    /\ task[o].pc = "putA" /\ task[o].cached = "true" /\ task[o].status = 404
    /\ hist[o].reqs = <<"GET">>
    /\ task[o].current = EmptyObj /\ task[o].etag = NoEtag
    /\ HAS_4096_CACHE[task[o].seriesId] = "false"

\* op o started its read with the cache entry false or unknown
StartedUncached(o) == task[o].cached \in {"false", "undefined"}

\* C34: a read that started with the cache entry false or unknown and whose
\* index request failed or did not list the key goes on to the direct GET of
\* the key, and the step that answers this GET leaves the entry true after a
\* 200, false after a 404, and as it was after any other outcome.
C34_FallbackReadSetsCache ==
  [][\A o \in Ops :
       /\ task[o].pc = "index" /\ task'[o] # task[o] /\ StartedUncached(o)
            /\ ~hist'[o].listed
          => task'[o].pc \in GetPcs
       /\ task[o].pc \in GetPcs /\ task'[o].pc \notin GetPcs /\ StartedUncached(o)
            /\ ~hist[o].listed
          => HAS_4096_CACHE'[task[o].seriesId] =
               IF task'[o].status = 200 THEN "true"
               ELSE IF task'[o].status = 404 THEN "false"
               ELSE HAS_4096_CACHE[task[o].seriesId]]_vars

\* C35: in the variant, once deleteSeriesCustomTag(s, k) has resolved, no
\* other client having written, the document stored for s does not contain k.
C35_VariantDeleteRemovesKey ==
  task[1].kind = "delete" /\ task[1].pc = "done" =>
    task[1].tagName \notin DOMAIN DocOf(stored[task[1].seriesId])

\* refresh i ends in this step, its loadSeriesForTable having resolved
Resolving(i) == app.refreshes[i].pc = "loaded" /\ app'.refreshes[i].pc = "resolved"

\* refresh i ends in this step, its loadSeriesForTable having rejected
Failing(i) == app.refreshes[i].pc = "loading" /\ app'.refreshes[i].pc = "rejected"

\* C36: the rows the page holds change only in a step in which a refresh ends
\* with loadSeriesForTable resolved, and then they are the rows it resolved
\* to, as a whole; a refresh that fails leaves them as they were, and so does
\* every edit, delete, upload, filter and sort step.
C36_RowsReplacedByRefreshOnly ==
  [][/\ app'.series # app.series =>
          \E i \in DOMAIN app.refreshes :
            Resolving(i) /\ app'.series = app.refreshes[i].rows
     /\ \A i \in DOMAIN app.refreshes : Failing(i) => app'.series = app.series]_vars

\* C36 witness: a refresh has failed and the page still holds the rows of an
\* earlier refresh, which the archive no longer has
C36_Witness ==
  /\ app.phase = "page"
  /\ \E i \in DOMAIN app.refreshes : app.refreshes[i].pc = "rejected"
  /\ app.series # <<>> /\ app.series # app.archive

\* C40: when every refresh started has settled and the one started last
\* resolved, the page holds the rows that one resolved to.
C40_LastStartedRefreshWins ==
  app.phase = "page" =>
    LET last == app.refreshes[Len(app.refreshes)] IN
    /\ Len(app.refreshes) >= 2
    /\ \A i \in DOMAIN app.refreshes : app.refreshes[i].pc \in {"resolved", "rejected"}
    /\ last.pc = "resolved"
    => app.series = last.rows

\* loadSeriesForTable has returned its rows: every aggregation has settled and
\* the rows are those of the find matches, in their order
ReturnedInOrder ==
  load.pc = "done" =>
    /\ \A i \in DOMAIN agg : agg[i].pc = "done"
    /\ [n \in DOMAIN load.rows |-> load.rows[n].id] = [n \in DOMAIN found |-> found[n].ID]

\* when every request is answered or fails, loadSeriesForTable settles: it
\* returns, after every aggregation and in the order of the matches, or throws
LoadSettles == []ReturnedInOrder /\ <>(load.pc \in {"done", "rejected"})

\* C37: when every request is answered or fails, loadSeriesForTable
\* eventually returns its rows, and it returns them only after every
\* aggregation has settled and in the order of the find matches.
C37_ReturnsAfterAllSettled == []ReturnedInOrder /\ <>(load.pc = "done")

\* C38: given the same answer to the direct request for the key, the read
\* gives the same document and the same token (or throws alike) whether the
\* cache entry was true, false or unknown when it started
C38_ResultIndependentOfCache ==
  parse.phase = "reads" =>
    \A c1 \in ReadStarts, c2 \in ReadStarts :
      (parse.runs[c1].out # "running" /\ parse.runs[c2].out # "running") =>
        /\ parse.runs[c1].out = parse.runs[c2].out
        /\ parse.runs[c1].result.tags = parse.runs[c2].result.tags
        /\ parse.runs[c1].result.etag = parse.runs[c2].result.etag

\* C38 witness: the three reads returned a two-key document stored in the
\* double-encoded form with a token, each through a different branch and
\* with different requests sent
C38_Witness ==
  /\ parse.phase = "reads"
  /\ parse.answer.status = 200
  /\ parse.answer.text = DoubleEncoded(Doc2(A, "1", B, "2"))
  /\ parse.answer.etag = 1
  /\ \A c \in ReadStarts : parse.runs[c].out = "returned"
  /\ parse.runs["true"].via = "getCached"
  /\ parse.runs["true"].reqs = <<"GET">>
  /\ parse.runs["false"].via = "getIndexed"
  /\ parse.runs["false"].reqs = <<"INDEX", "GET">>
  /\ parse.runs["undefined"].via = "probe"
  /\ parse.runs["undefined"].result.tags = Doc2(A, "1", B, "2")
  /\ parse.runs["undefined"].result.etag = 1

\* the put of op 1 has resolved and the get that follows it has returned
PutThenGetReturned ==
  /\ task[1].kind = "put" /\ task[1].pc = "done"
  /\ task[2].kind = "get" /\ task[2].pc = "done"

\* the pairs of the patch are in the document the get returned
GetReturnsPatch == Has(Spread(task[2].current), task[1].tags)

\* C39 as stated: after a put that succeeded, with no other writer, the next
\* get returns a document holding every pair of the patch, whichever
\* encoding was stored
C39_PutThenGetReturnsPatch ==
  PutThenGetReturned => GetReturnsPatch

\* C39 amended: the same, for a get whose request for the key is answered 200
C39_PutThenAnsweredGetReturnsPatch ==
  (PutThenGetReturned /\ task[2].status = 200) => GetReturnsPatch

\* C39 witness: the plain form was refused and the double-encoded form of
\* the merged document stored; the get returns the patch pairs
C39_Witness ==
  /\ PutThenGetReturned
  /\ task[2].status = 200
  /\ task[1].tags = Doc2(A, "3", B, "2").m
  /\ stored[task[1].seriesId] = Present(DoubleEncoded(Doc2(A, "3", B, "2")))
  /\ GetReturnsPatch

====
